---- MODULE Spec2Model ----
(***************************************************************************)
(* Render cache and render pipeline of the Liquid preview subsystem.       *)
(*                                                                         *)
(* Text is modelled as a sequence of UTF-16 code units, so that the key    *)
(* join, the JSON encoding, the 32-bit rolling hash, the base-36 rendering *)
(* and the SQLite text comparison of timestamps are computed the way the   *)
(* code computes them.  An optional value (undefined / NULL) is the empty  *)
(* tuple <<>>, a present value v is the one-element tuple <<v>>.           *)
(***************************************************************************)
EXTENDS Integers, Sequences, FiniteSets, TLC

\* ------------------------------------------------------------------------
\* Text helpers
\* ------------------------------------------------------------------------

None == <<>>

Some(v) == <<v>>

\* Code units of the punctuation the code emits.
Colon == 58

Quote == 34

Comma == 44

LBrace == 123

RBrace == 125

Space == 32

Dash == 45

Dot == 46

LetterT == 84

LetterZ == 90

\* Array.prototype.join over a list of texts.
RECURSIVE Join(_, _)
Join(parts, sep) ==
    IF Len(parts) = 0 THEN <<>>
    ELSE IF Len(parts) = 1 THEN parts[1]
    ELSE parts[1] \o <<sep>> \o Join(Tail(parts), sep)

\* Text comparison a < b by code unit (SQLite BINARY collation on TEXT).
RECURSIVE TextLess(_, _)
TextLess(a, b) ==
    IF Len(b) = 0 THEN FALSE
    ELSE IF Len(a) = 0 THEN TRUE
    ELSE IF a[1] < b[1] THEN TRUE
    ELSE IF a[1] > b[1] THEN FALSE
    ELSE TextLess(Tail(a), Tail(b))

\* Code unit of the digit d (0..35) in radix 36: 0-9 then a-z.
DigitChar(d) == IF d < 10 THEN 48 + d ELSE 87 + d

\* Decimal digits of n, padded to at least w characters.
RECURSIVE Decimal(_, _)
Decimal(n, w) ==
    IF n < 10 /\ w <= 1 THEN <<DigitChar(n)>>
    ELSE Decimal(n \div 10, w - 1) \o <<DigitChar(n % 10)>>

\* ------------------------------------------------------------------------
\* Cache key and settings fingerprint (cache.ts)
\* ------------------------------------------------------------------------

\* generateCacheKey: the slug, then the preset and the hash when truthy
\* (neither undefined nor the empty string), joined with ':'.
Truthy(opt) == opt # None /\ opt[1] # <<>>

generateCacheKey(sectionSlug, presetSlug, settingsHash) ==
    Join(<<sectionSlug>>
           \o (IF Truthy(presetSlug) THEN <<presetSlug[1]>> ELSE <<>>)
           \o (IF Truthy(settingsHash) THEN <<settingsHash[1]>> ELSE <<>>),
         Colon)

\* JSON.stringify of a settings object.  The object is the sequence of its
\* <<key, value>> entries in insertion order, which is the order in which
\* JSON.stringify visits the (non-integer) keys; values are strings.
JsonString(s) == <<Quote>> \o s \o <<Quote>>

RECURSIVE JsonMembers(_)
JsonMembers(entries) ==
    IF Len(entries) = 0 THEN <<>>
    ELSE <<JsonString(entries[1][1]) \o <<Colon>> \o JsonString(entries[1][2])>>
           \o JsonMembers(Tail(entries))

JsonStringify(entries) ==
    <<LBrace>> \o Join(JsonMembers(entries), Comma) \o <<RBrace>>

\* A 32-bit integer is kept as its two 16-bit halves [hi, lo] (two's
\* complement), so that no intermediate value leaves the checker's range.
Half == 65536

\* hash = ((hash << 5) - hash) + char; hash = hash & hash
HashStep(h, char) ==
    LET lo == h.lo * 31 + char
        hi == h.hi * 31 + (lo \div Half)
    IN  [hi |-> hi % Half, lo |-> lo % Half]

RECURSIVE HashLoop(_, _)
HashLoop(h, str) ==
    IF Len(str) = 0 THEN h
    ELSE HashLoop(HashStep(h, str[1]), Tail(str))

\* Math.abs of the signed 32-bit value, as an unsigned pair (2^31 fits).
Abs32(h) ==
    IF h.hi < 32768 THEN h
    ELSE IF h.lo = 0 THEN [hi |-> Half - h.hi, lo |-> 0]
    ELSE [hi |-> Half - 1 - h.hi, lo |-> Half - h.lo]

\* Number.prototype.toString(36) of a non-negative integer.
RECURSIVE ToString36(_)
ToString36(n) ==
    LET qhi == n.hi \div 36
        mid == (n.hi % 36) * Half + n.lo
        q   == [hi |-> qhi, lo |-> mid \div 36]
        r   == mid % 36
    IN  IF q.hi = 0 /\ q.lo = 0 THEN <<DigitChar(r)>>
        ELSE ToString36(q) \o <<DigitChar(r)>>

hashSettings(settings) ==
    ToString36(Abs32(HashLoop([hi |-> 0, lo |-> 0], JsonStringify(settings))))

\* ------------------------------------------------------------------------
\* Time: the wall clock is a number of minutes since 2026-11-01T00:00Z.
\* ------------------------------------------------------------------------

MinutesPerDay == 1440

\* "2026-11-"
YearMonth == <<50, 48, 50, 54, Dash, 49, 49, Dash>>

DatePart(t) == YearMonth \o Decimal(1 + (t \div MinutesPerDay), 2)

ClockPart(t) ==
    Decimal((t % MinutesPerDay) \div 60, 2) \o <<Colon>>
      \o Decimal(t % 60, 2) \o <<Colon>> \o Decimal(0, 2)

\* Date.prototype.toISOString(): YYYY-MM-DDTHH:MM:SS.sssZ
toISOString(t) ==
    DatePart(t) \o <<LetterT>> \o ClockPart(t)
      \o <<Dot>> \o Decimal(0, 3) \o <<LetterZ>>

\* now() of lib/db: the current instant as ISO text.
now(t) == toISOString(t)

\* SQLite datetime('now'): YYYY-MM-DD HH:MM:SS
datetimeNow(t) == DatePart(t) \o <<Space>> \o ClockPart(t)

\* ------------------------------------------------------------------------
\* The rendered_previews table and its statements (cache.ts)
\* ------------------------------------------------------------------------

\* A variant that inserts without removing the conflicting row.
InsertKeepingOld(rows, row) == rows \cup {row}

\* INSERT OR REPLACE with cache_key UNIQUE: the conflicting row is deleted,
\* then the new row is inserted.
InsertOrReplace(rows, row) ==
    {r \in rows : r.cache_key # row.cache_key} \cup {row}

\* A variant without the catch: it answers from the table whatever the
\* backend did.
getCachedPreviewUnguarded(rows, t, cacheKey, ok) ==
    LET hits == {r \in rows : /\ r.cache_key = cacheKey
                              /\ TextLess(datetimeNow(t), r.expires_at)}
    IN  IF hits = {} THEN None
        ELSE LET result == CHOOSE r \in hits : TRUE
             IN  Some([html |-> result.html,
                       css |-> result.css,
                       renderTimeMs |-> result.render_time_ms])

\* SELECT html, css, render_time_ms ... WHERE cache_key = ? AND
\* expires_at > datetime('now'); a backend error is a miss.
getCachedPreview(rows, t, cacheKey, ok) ==
    IF ~ok THEN None
    ELSE LET hits == {r \in rows : /\ r.cache_key = cacheKey
                                   /\ TextLess(datetimeNow(t), r.expires_at)}
         IN  IF hits = {} THEN None
             ELSE LET result == CHOOSE r \in hits : TRUE
                  IN  Some([html |-> result.html,
                            css |-> result.css,
                            renderTimeMs |-> result.render_time_ms])

setCachedPreview(rows, t, cacheKey, sectionSlug, presetSlug, entry, ttlMinutes, ok) ==
    IF ~ok THEN rows
    ELSE InsertOrReplace(rows,
           [cache_key      |-> cacheKey,
            section_slug   |-> sectionSlug,
            preset_slug    |-> presetSlug,
            html           |-> entry.html,
            css            |-> entry.css,
            render_time_ms |-> entry.renderTimeMs,
            created_at     |-> now(t),
            expires_at     |-> toISOString(t + ttlMinutes)])

\* A variant that matches the whole cache key against the slug.
SectionRowsByKey(rows, sectionSlug) == {r \in rows : r.cache_key = sectionSlug}

\* DELETE FROM rendered_previews WHERE section_slug = ?
SectionRows(rows, sectionSlug) == {r \in rows : r.section_slug = sectionSlug}

\* Whether text ends with suffix.
EndsWith(text, suffix) ==
    /\ Len(text) >= Len(suffix)
    /\ SubSeq(text, Len(text) - Len(suffix) + 1, Len(text)) = suffix

\* A variant that matches the preset against the tail of the cache key.
PresetRowsByKey(rows, presetSlug) ==
    {r \in rows : EndsWith(r.cache_key, <<Colon>> \o presetSlug)}

\* DELETE FROM rendered_previews WHERE preset_slug = ?  (NULL matches nothing)
PresetRows(rows, presetSlug) == {r \in rows : r.preset_slug = Some(presetSlug)}

\* DELETE FROM rendered_previews WHERE expires_at < datetime('now')
ExpiredRows(rows, t) == {r \in rows : TextLess(r.expires_at, datetimeNow(t))}

\* ------------------------------------------------------------------------
\* Content sources and the template engine (renderer)
\* ------------------------------------------------------------------------

\* "hero"
Hero == <<104, 101, 114, 111>>

\* "promo"
Promo == <<112, 114, 111, 109, 111>>

\* "broken"
Broken == <<98, 114, 111, 107, 101, 110>>

\* "t"
KeyT == <<116>>

\* { t: "Aa" }
OvAa == << <<KeyT, <<65, 97>> >> >>

\* A preset slug that reads like a settings fingerprint.
HashLike == hashSettings(OvAa)

\* "light"
Light == <<108, 105, 103, 104, 116>>

\* "hero:" followed by HashLike: a slug with a colon in it.
HeroColon == Hero \o <<Colon>> \o HashLike

\* "bare"
Bare == <<98, 97, 114, 101>>

\* Slugs for which loadSectionData finds a schema.
Schemas == {Hero, Promo, Broken, Bare}

\* Slugs whose template makes parseAndRender throw.
ThrowingSlugs == {Broken}

\* loadSectionData(slug) found a section.
SchemaExists(slug) == slug \in Schemas

\* engine.parseAndRender(template, context) throws.
TemplateThrows(slug) == slug \in ThrowingSlugs

\* The html of a successful render is determined by the section, the preset
\* and the settings it was rendered with.
RenderedHtml(slug, preset, settings) ==
    [kind |-> "section", slug |-> slug, preset |-> preset, settings |-> settings]

\* <div class="error">Section not found: ${sectionSlug}</div>
NotFoundHtml(slug) ==
    [kind |-> "Section not found", slug |-> slug, preset |-> None, settings |-> None]

\* <div class="error">Render error: ${message}</div>
RenderErrorHtml(slug) ==
    [kind |-> "Render error", slug |-> slug, preset |-> None, settings |-> None]

\* Whether the html is an inline error marker.
IsErrorMarker(html) == html.kind \in {"Section not found", "Render error"}

NotFoundMessage(slug) == [text |-> "Section not found", slug |-> slug]

RenderErrorMessage(slug) == [text |-> "render error", slug |-> slug]

\* generatePreviewCSS(sectionData)
PreviewCss(slug) == [css |-> slug]

EmptyCss == [css |-> <<>>]

\* ------------------------------------------------------------------------
\* Section schemas and the mock context generator (mock-generator.ts)
\* ------------------------------------------------------------------------

\* "a"
KeyA == <<97>>

\* "Aa", "BB"
ValueAa == <<65, 97>>

ValueBB == <<66, 66>>

\* null: a value that is no text (no code unit is negative).
Null == <<-1>>

\* A JavaScript object is the sequence of its <<key, value>> entries in
\* insertion order.  `key in object`
Has(object, key) == \E i \in 1 .. Len(object) : object[i][1] = key

\* object[key] of a key the object has.
Get(object, key) ==
    object[CHOOSE i \in 1 .. Len(object) : object[i][1] = key][2]

\* A variant that leaves a key the object has as it is.
PutIfAbsent(object, key, value) ==
    IF Has(object, key) THEN object ELSE Append(object, <<key, value>>)

\* object[key] = value
Put(object, key, value) ==
    IF Has(object, key)
    THEN [i \in 1 .. Len(object) |->
            IF object[i][1] = key THEN <<key, value>> ELSE object[i]]
    ELSE Append(object, <<key, value>>)

\* Object.assign(target, source)
RECURSIVE ObjectAssign(_, _)
ObjectAssign(target, source) ==
    IF source = <<>> THEN target
    ELSE ObjectAssign(Put(target, Head(source)[1], Head(source)[2]),
                      Tail(source))

\* 'Sample text'
SampleText == <<83, 97, 109, 112, 108, 101, 32, 116, 101, 120, 116>>

\* '#'
Hash == <<35>>

\* '#000000'
Black == <<35, 48, 48, 48, 48, 48, 48>>

\* The entries of typeDefaults for the setting types the schemas use.
typeDefaults ==
    [text |-> SampleText, url |-> Hash, color |-> Black,
     image_picker |-> Null, header |-> Null, paragraph |-> Null]

\* setting.default if defined, else typeDefaults[setting.type] ?? null
getDefaultValue(setting) ==
    IF setting.default # None THEN setting.default[1]
    ELSE IF setting.type \in DOMAIN typeDefaults THEN typeDefaults[setting.type]
    ELSE Null

RECURSIVE extractSettingsDefaults(_)
extractSettingsDefaults(settings) ==
    IF settings = <<>> THEN <<>>
    ELSE LET setting == settings[Len(settings)]
             result == extractSettingsDefaults(
                           SubSeq(settings, 1, Len(settings) - 1))
         IN  IF setting.type \in {"header", "paragraph"} THEN result
             ELSE Put(result, setting.id, getDefaultValue(setting))

\* A variant that adds the default whether or not the key is present.
MergeDefaultAlways(blockSettings, setting) ==
    Append(blockSettings, <<setting.id, getDefaultValue(setting)>>)

\* if (!(setting.id in blockSettings)) blockSettings[setting.id] = default
MergeDefault(blockSettings, setting) ==
    IF Has(blockSettings, setting.id) THEN blockSettings
    ELSE Put(blockSettings, setting.id, getDefaultValue(setting))

\* for (const setting of blockType.settings) { merge }
RECURSIVE MergeDefaults(_, _)
MergeDefaults(blockSettings, settings) ==
    IF settings = <<>> THEN blockSettings
    ELSE MergeDefaults(MergeDefault(blockSettings, Head(settings)),
                       Tail(settings))

\* for (const setting of blockType.settings) blockSettings[id] = default
RECURSIVE AllDefaults(_, _)
AllDefaults(blockSettings, settings) ==
    IF settings = <<>> THEN blockSettings
    ELSE AllDefaults(Put(blockSettings, Head(settings).id,
                         getDefaultValue(Head(settings))), Tail(settings))

\* blockTypes.find(bt => bt.type === type): the first match, or absent.
FindBlockType(blockTypes, type) ==
    LET matches == {i \in 1 .. Len(blockTypes) : blockTypes[i].type = type}
    IN  IF matches = {} THEN None
        ELSE Some(blockTypes[CHOOSE i \in matches : \A j \in matches : i <= j])

\* "block-"
BlockPrefix == <<98, 108, 111, 99, 107, 45>>

\* A variant that numbers the blocks from one.
MockBlockFromOne(index, type, settings) ==
    [id |-> BlockPrefix \o Decimal(index + 1, 1), type |-> type,
     settings |-> settings,
     shopify_attributes |-> [id |-> BlockPrefix \o Decimal(index + 1, 1),
                             type |-> type]]

\* A block of the context: `block-${index}`, its type, its settings and the
\* editor attributes, which repeat the id and the type.
MockBlock(index, type, settings) ==
    [id |-> BlockPrefix \o Decimal(index, 1), type |-> type,
     settings |-> settings,
     shopify_attributes |-> [id |-> BlockPrefix \o Decimal(index, 1),
                             type |-> type]]

\* What a call that throws leaves behind: no blocks, the presets as they were.
BlocksThrown(presets) == [raised |-> TRUE, blocks |-> <<>>, presets |-> presets]

\* The settings of a block taken from the first preset: block.settings || {},
\* with the block type's defaults merged in for the ids it lacks.
PresetBlockSettings(blockTypes, block) ==
    LET blockType == FindBlockType(blockTypes, block.type)
        blockSettings == IF block.settings # None THEN block.settings[1]
                         ELSE <<>>
    IN  IF blockType # None /\ blockType[1].settings # None
        THEN MergeDefaults(blockSettings, blockType[1].settings[1])
        ELSE blockSettings

\* generateMockBlocks(blockTypes, presets): the blocks, and the presets
\* after the call.  blockSettings is the preset block's own settings object
\* when it has one, so what is merged into it is merged into the schema.
\* An absent list is None; a null first preset is None.
generateMockBlocks(blockTypes, presets) ==
    LET usable == presets # None /\ Len(presets[1]) > 0
    IN  IF usable /\ presets[1][1] = None THEN BlocksThrown(presets)
        ELSE IF usable /\ presets[1][1][1].blocks # None THEN
            LET blocks == presets[1][1][1].blocks[1]
            IN  IF blocks # <<>> /\ blockTypes = None THEN BlocksThrown(presets)
                ELSE LET merged == [i \in 1 .. Len(blocks) |->
                                      PresetBlockSettings(blockTypes[1], blocks[i])]
                         after == [i \in 1 .. Len(blocks) |->
                                     [blocks[i] EXCEPT !.settings =
                                        IF blocks[i].settings # None
                                        THEN Some(merged[i]) ELSE None]]
                     IN  [raised |-> FALSE,
                          blocks |-> [i \in 1 .. Len(blocks) |->
                                        MockBlock(i - 1, blocks[i].type, merged[i])],
                          presets |-> Some([presets[1] EXCEPT ![1] =
                                        Some([presets[1][1][1] EXCEPT
                                                !.blocks = Some(after)])])]
        ELSE IF blockTypes = None THEN BlocksThrown(presets)
        ELSE LET sample == SubSeq(blockTypes[1], 1,
                                  IF Len(blockTypes[1]) < 3
                                  THEN Len(blockTypes[1]) ELSE 3)
             IN  [raised |-> FALSE,
                  blocks |-> [i \in 1 .. Len(sample) |->
                                MockBlock(i - 1, sample[i].type,
                                  IF sample[i].settings # None
                                  THEN AllDefaults(<<>>, sample[i].settings[1])
                                  ELSE <<>>)],
                  presets |-> presets]

\* The theme settings the model follows, at their defaults.  A color or a
\* font is Some(text), or None once it was assigned undefined.
ThemeDefaults ==
    [color_primary |-> Some("#2563eb"), color_accent |-> Some("#f59e0b"),
     color_text |-> Some("#1e293b"),
     typography_heading_font |-> Some("Inter"),
     typography_body_font |-> Some("Inter"),
     button_border_radius |-> 8, page_width |-> 1200,
     social_twitter_link |-> ""]

\* generateThemeSettings(preset): when the preset has colors, every color is
\* assigned from them, and likewise every font from its typography; a field
\* the preset's object lacks (None) reads as undefined and is assigned so.
generateThemeSettings(preset) ==
    LET colored == IF preset # None /\ preset[1].colors # None
                   THEN [ThemeDefaults EXCEPT
                           !.color_primary = preset[1].colors[1].primary,
                           !.color_accent = preset[1].colors[1].accent,
                           !.color_text = preset[1].colors[1].text]
                   ELSE ThemeDefaults
    IN  IF preset # None /\ preset[1].typography # None
        THEN [colored EXCEPT
                !.typography_heading_font =
                    preset[1].typography[1].heading_font,
                !.typography_body_font = preset[1].typography[1].body_font]
        ELSE colored

\* generateMockImage(index): an image object, of which the model follows
\* the id and the position.
generateMockImage(index) == [id |-> 1000 + index, position |-> index + 1]

\* generateMockProduct(index): the id, the price in cents and the featured
\* image, which is images[0], an image object.
generateMockProduct(index) ==
    [id |-> 1000 + index, price |-> 2999 + (index * 1000),
     featured_image |-> generateMockImage(0)]

\* generateMockCollection(index): the id and the eight products.
generateMockCollection(index) ==
    [id |-> 5000 + index,
     products |-> [i \in 1 .. 8 |-> generateMockProduct(i - 1)]]

\* const result = {}: no entity is set.
NoEntities == [product |-> None, collection |-> None, collections |-> None]

\* A variant that takes the default branch for every category.
generateMockEntitiesDefault(category) ==
    [NoEntities EXCEPT !.product = Some(generateMockProduct(0)),
                       !.collection = Some(generateMockCollection(0))]

\* generateMockEntities(category): the product, the collection and the
\* list of collections the context carries, each None when it is not set.
generateMockEntities(category) ==
    IF category \in {"product", "main-product"}
    THEN [NoEntities EXCEPT !.product = Some(generateMockProduct(0))]
    ELSE IF category \in {"collection", "main-collection"}
    THEN [NoEntities EXCEPT !.collection = Some(generateMockCollection(0))]
    ELSE IF category \in {"featured-collection", "collection-list"}
    THEN LET collections == [i \in 1 .. 4 |-> generateMockCollection(i - 1)]
         IN  [NoEntities EXCEPT !.collections = Some(collections),
                                !.collection = Some(collections[1])]
    ELSE IF category \in {"hero", "slideshow", "image-banner"}
    THEN NoEntities
    ELSE [NoEntities EXCEPT !.product = Some(generateMockProduct(0)),
                            !.collection = Some(generateMockCollection(0))]

NoContext ==
    [settings |-> ThemeDefaults,
     section |-> [id |-> <<>>, settings |-> <<>>, blocks |-> <<>>],
     entities |-> NoEntities]

\* generateMockDataFromSchema(sectionSchema, preset): whether it threw,
\* the context it returned, and the schema object after the call.  Iterating
\* an absent settings list throws before anything else is done.
generateMockDataFromSchema(sectionSchema, preset) ==
    IF sectionSchema.settings = None
    THEN [raised |-> TRUE, context |-> NoContext, schema |-> sectionSchema]
    ELSE LET mock == generateMockBlocks(sectionSchema.blocks,
                                        sectionSchema.presets)
         IN  IF mock.raised
             THEN [raised |-> TRUE, context |-> NoContext,
                   schema |-> sectionSchema]
             ELSE [raised |-> FALSE,
                   context |->
                     [settings |-> generateThemeSettings(preset),
                      section |->
                        [id |-> sectionSchema.slug,
                         settings |-> extractSettingsDefaults(
                                          sectionSchema.settings[1]),
                         blocks |-> mock.blocks],
                      entities |-> generateMockEntities(sectionSchema.category)],
                   schema |-> [sectionSchema EXCEPT !.presets = mock.presets]]

\* A setting of a schema: its id, its type and its default, if it has one.
Setting(id, type, default) == [id |-> id, type |-> type, default |-> default]

\* The data loadSectionData returns for a slug that has a section: "bare"
\* is a section whose data carries no settings list.
SectionData(slug) ==
    [slug |-> slug,
     category |-> IF slug = Hero THEN "hero" ELSE "custom",
     settings |-> IF slug = Bare THEN None
                  ELSE Some(<<Setting(KeyT, "text", None)>>),
     blocks |-> Some(<<>>),
     presets |-> Some(<<>>)]

\* The presets that have a file under library/presets.
PresetFiles == {Light}

\* The colors and the typography of a preset file: a field the file lacks
\* is None.
PresetColors(primary, accent, text) ==
    [primary |-> primary, accent |-> accent, text |-> text]

PresetTypography(heading_font, body_font) ==
    [heading_font |-> heading_font, body_font |-> body_font]

\* loadPresetData(slug): the preset's colors and typography, or null.  The
\* colors of "light" are those of the documented preset structure, which
\* has no accent.
loadPresetData(slug) ==
    IF slug \in PresetFiles
    THEN Some([colors |-> Some(PresetColors(Some("#111111"), None,
                                            Some("#eeeeee"))),
               typography |-> None])
    ELSE None

\* generateMockDataFromSchema(sectionData, presetData ?? undefined) throws.
ContextThrows(slug, presetSlug) ==
    generateMockDataFromSchema(
        SectionData(slug),
        IF presetSlug # None THEN loadPresetData(presetSlug[1]) ELSE None).raised

\* ------------------------------------------------------------------------
\* Bounds of the model
\* ------------------------------------------------------------------------

\* 2026-11-03T21:00Z, in minutes since the start of the month.
StartClock == 2 * MinutesPerDay + 21 * 60

\* The clock advances in steps of TickMinutes, at most MaxTicks times.
TickMinutes == 90

MaxTicks == 2

\* Measured render times, in milliseconds: a render takes between 1 and
\* MaxElapsed; the two extremes are drawn.
MaxElapsed == 2

Elapsed == {1, MaxElapsed}

\* The render requests callers make: (sectionSlug, presetSlug, customSettings).
Request(slug, preset, settings) ==
    [slug |-> slug, preset |-> preset, settings |-> settings]

Requests ==
    { Request(Hero, Some(HashLike), None),
      Request(Hero, None, Some(OvAa)),
      Request(Promo, Some(HashLike), None),
      Request(HeroColon, None, None),
      Request(Broken, None, None) }

RequestSlugs == {q.slug : q \in Requests}

RequestPresets == {HashLike, Light}

\* ------------------------------------------------------------------------
\* State
\* ------------------------------------------------------------------------

VARIABLES
    cache,    \* the rows of rendered_previews
    clock,    \* the wall clock, in minutes
    last,     \* the last operation: its arguments, its faults and its result
    writer    \* for each row, the renderSection call that wrote it

vars == <<cache, clock, last, writer>>

\* TTL passed by renderSection to setCachedPreview.
TtlMinutes == 60

\* A variant that never caches.
ShouldCacheNever(skipCache, errors) == FALSE

\* A variant that caches whatever was rendered.
ShouldCacheAnyResult(skipCache, errors) == ~skipCache

\* A variant that ignores skipCache.
ShouldCacheOnSuccess(skipCache, errors) == Len(errors) = 0

\* if (!skipCache && errors.length === 0)
ShouldCache(skipCache, errors) == ~skipCache /\ Len(errors) = 0

\* A variant whose catch block drops the message.
CaughtErrorsDropped(threw, slug) == <<>>

\* try { parseAndRender } catch (error) { errors.push(message) }
CaughtErrors(threw, slug) ==
    IF threw THEN <<RenderErrorMessage(slug)>> ELSE <<>>

\* settingsHash = customSettings ? hashSettings(customSettings) : undefined
SettingsHash(customSettings) ==
    IF customSettings # None THEN Some(hashSettings(customSettings[1])) ELSE None

\* The cache key renderSection computes for a request.
CacheKeyOf(q) == generateCacheKey(q.slug, q.preset, SettingsHash(q.settings))

\* The key of every request, computed once.
KeyTable == [q \in Requests |-> CacheKeyOf(q)]

RequestKeys == {KeyTable[q] : q \in Requests}

\* What an operation returned: a RenderResult, a CacheEntry or absent, or a
\* number of deleted rows.
Returned(result, entry, count) ==
    [result |-> result, entry |-> entry, count |-> count]

NoResult ==
    [html |-> RenderedHtml(None, None, None), css |-> EmptyCss, errors |-> <<>>,
     renderTimeMs |-> 0, cached |-> FALSE]

Operation(op, q, flags, key, returned, notes) ==
    [op |-> op, slug |-> q.slug, preset |-> q.preset, settings |-> q.settings,
     skipCache |-> flags.skipCache, getOk |-> flags.getOk, setOk |-> flags.setOk,
     key |-> key, result |-> returned.result, entry |-> returned.entry,
     count |-> returned.count,
     raised |-> notes.raised,
     threw |-> notes.threw, wrote |-> notes.wrote, replaced |-> notes.replaced,
     prior |-> notes.prior]

\* Whether a statement succeeds is the backend's choice when the statement is
\* attempted; a statement that is not attempted has no fault.
Faults(attempted) == IF attempted THEN BOOLEAN ELSE {TRUE}

NoRequest == Request(None, None, None)

NoFlags == [skipCache |-> FALSE, getOk |-> TRUE, setOk |-> TRUE]

NoNotes ==
    [raised |-> FALSE, threw |-> FALSE, wrote |-> FALSE, replaced |-> FALSE,
     prior |-> None]

\* The rows of the history that are still in the table.
Prune(history, rows) ==
    {w \in history : \E r \in rows : r.cache_key = w.cache_key}

Init ==
    /\ cache = {}
    /\ clock = StartClock
    /\ last = Operation("init", NoRequest, NoFlags, None,
                        Returned(NoResult, None, 0), NoNotes)
    /\ writer = {}

\* ------------------------------------------------------------------------
\* renderSection (renderer)
\* ------------------------------------------------------------------------

\* Whether the context generator throws, for every section and preset.
ThrowTable ==
    [slug \in Schemas, presetSlug \in {None} \cup {Some(p) : p \in RequestPresets} |->
        ContextThrows(slug, presetSlug)]

\* The key of a request: looked up for the requests of the table.
KeyOf(q) == IF q \in Requests THEN KeyTable[q] ELSE CacheKeyOf(q)

\* renderSection(options) against the rows of the table at instant t: whether
\* it threw, the RenderResult it returned, the rows after the call, whether
\* the engine threw, whether a write was attempted and whether it was made.
renderSection(rows, t, q, skipCache, getOk, setOk, elapsed) ==
    LET cacheKey == KeyOf(q)
        cached == IF skipCache THEN None
                  ELSE getCachedPreview(rows, t, cacheKey, getOk)
        Outcome(raised, result, after, threw, attempted, wrote) ==
            [raised |-> raised, result |-> result, rows |-> after,
             threw |-> threw, attempted |-> attempted, wrote |-> wrote]
    IN  IF cached # None THEN
            Outcome(FALSE, [html |-> cached[1].html,
                            css |-> cached[1].css,
                            errors |-> <<>>,
                            renderTimeMs |-> cached[1].renderTimeMs,
                            cached |-> TRUE], rows, FALSE, FALSE, FALSE)
        ELSE IF ~SchemaExists(q.slug) THEN
            Outcome(FALSE, [html |-> NotFoundHtml(q.slug),
                            css |-> EmptyCss,
                            errors |-> <<NotFoundMessage(q.slug)>>,
                            renderTimeMs |-> elapsed,
                            cached |-> FALSE], rows, FALSE, FALSE, FALSE)
        ELSE IF ThrowTable[q.slug, q.preset] THEN
            Outcome(TRUE, NoResult, rows, FALSE, FALSE, FALSE)
        ELSE
            LET threw == TemplateThrows(q.slug)
                errors == CaughtErrors(threw, q.slug)
                html == IF threw THEN RenderErrorHtml(q.slug)
                        ELSE RenderedHtml(q.slug, q.preset, q.settings)
                css == PreviewCss(q.slug)
                cacheEntry == [html |-> html, css |-> css, renderTimeMs |-> elapsed]
                write == ShouldCache(skipCache, errors)
            IN  Outcome(FALSE, [html |-> html, css |-> css,
                                errors |-> errors,
                                renderTimeMs |-> elapsed,
                                cached |-> FALSE],
                        IF write
                        THEN setCachedPreview(rows, t, cacheKey, q.slug,
                                              q.preset, cacheEntry, TtlMinutes, setOk)
                        ELSE rows,
                        threw, write, write /\ setOk)

\* ------------------------------------------------------------------------
\* renderSection as an operation on the cache
\* ------------------------------------------------------------------------

\* The call just before this one, when it was a render of the same request
\* with caching enabled and no backend failure.
PriorRender(q) ==
    IF /\ last.op = "renderSection" /\ last.slug = q.slug
       /\ last.preset = q.preset /\ last.settings = q.settings
       /\ ~last.skipCache /\ last.getOk /\ last.setOk
    THEN Some([threw |-> last.threw,
               cached |-> last.result.cached,
               html |-> last.result.html])
    ELSE None

RenderSection(q, skipCache, getOk, setOk, elapsed) ==
    \E out \in {renderSection(cache, clock, q, skipCache, getOk, setOk, elapsed)},
       cacheKey \in {KeyOf(q)} :
        /\ cache' = out.rows
        /\ writer' = IF out.wrote
                     THEN {w \in writer : w.cache_key # cacheKey}
                            \cup {[cache_key |-> cacheKey, slug |-> q.slug,
                                   preset |-> q.preset,
                                   settings |-> q.settings,
                                   errors |-> out.result.errors]}
                     ELSE writer
        \* a call that made no write: the write's fault is not part of it
        /\ last' = Operation("renderSection", q,
                     [skipCache |-> skipCache, getOk |-> getOk,
                      setOk |-> out.attempted => setOk], cacheKey,
                     Returned(out.result, None, 0),
                     [raised |-> out.raised, threw |-> out.threw,
                      wrote |-> out.wrote,
                      replaced |-> out.wrote /\ \E r \in cache :
                                                 r.cache_key = cacheKey,
                      prior |-> PriorRender(q)])
        /\ UNCHANGED clock

\* ------------------------------------------------------------------------
\* Cache maintenance (cache.ts)
\* ------------------------------------------------------------------------

\* A standalone lookup, as getCachedPreview is exported.
LookupPreview(cacheKey, ok) ==
    /\ last' = Operation("getCachedPreview", NoRequest,
                 [skipCache |-> FALSE, getOk |-> ok, setOk |-> TRUE], cacheKey,
                 Returned(NoResult, getCachedPreview(cache, clock, cacheKey, ok), 0),
                 NoNotes)
    /\ UNCHANGED <<cache, clock, writer>>

Deletion(op, q, ok, doomed) ==
    LET removed == IF ok THEN doomed ELSE {}
    IN  /\ cache' = cache \ removed
        /\ writer' = Prune(writer, cache \ removed)
        /\ last' = Operation(op, q,
                     [skipCache |-> FALSE, getOk |-> ok, setOk |-> ok], None,
                     Returned(NoResult, None, Cardinality(removed)), NoNotes)
        /\ UNCHANGED clock

InvalidateSectionCache(sectionSlug, ok) ==
    Deletion("invalidateSectionCache", Request(sectionSlug, None, None), ok,
             SectionRows(cache, sectionSlug))

InvalidatePresetCache(presetSlug, ok) ==
    Deletion("invalidatePresetCache", Request(None, Some(presetSlug), None), ok,
             PresetRows(cache, presetSlug))

CleanupExpiredCache(ok) ==
    Deletion("cleanupExpiredCache", NoRequest, ok, ExpiredRows(cache, clock))

\* Time passes.
Tick ==
    /\ clock + TickMinutes <= StartClock + MaxTicks * TickMinutes
    /\ clock' = clock + TickMinutes
    /\ last' = Operation("tick", NoRequest, NoFlags, None,
                         Returned(NoResult, None, 0), NoNotes)
    /\ UNCHANGED <<cache, writer>>

Next ==
    \/ \E q \in Requests, skipCache \in BOOLEAN, elapsed \in Elapsed :
          \E getOk \in Faults(~skipCache), setOk \in Faults(~skipCache) :
             RenderSection(q, skipCache, getOk, setOk, elapsed)
    \/ \E cacheKey \in RequestKeys, ok \in BOOLEAN : LookupPreview(cacheKey, ok)
    \/ \E sectionSlug \in RequestSlugs, ok \in BOOLEAN :
          InvalidateSectionCache(sectionSlug, ok)
    \/ \E presetSlug \in RequestPresets, ok \in BOOLEAN :
          InvalidatePresetCache(presetSlug, ok)
    \/ \E ok \in BOOLEAN : CleanupExpiredCache(ok)
    \/ Tick

Spec == Init /\ [][Next]_vars

\* ------------------------------------------------------------------------
\* The cache key as a function of the request: a specification that draws two
\* requests differing only in their overrides and computes both keys.
\* ------------------------------------------------------------------------

SettingKeys == {KeyA, KeyT}

SettingValues == {ValueAa, ValueBB}

\* Largest number of entries of an overrides object.
MaxEntries == 2

\* The objects with at most MaxEntries entries, each in every insertion order.
RECURSIVE SettingsObjects(_)
SettingsObjects(n) ==
    IF n = 0 THEN {<<>>}
    ELSE LET shorter == SettingsObjects(n - 1)
         IN  shorter \cup
             {Append(o, <<k, v>>) :
                o \in {x \in shorter : Len(x) = n - 1},
                k \in SettingKeys, v \in SettingValues}

HasDistinctKeys(o) ==
    \A i, j \in 1 .. Len(o) : o[i][1] = o[j][1] => i = j

OverrideMaps == {o \in SettingsObjects(MaxEntries) : HasDistinctKeys(o)}

KeySlugs == {Hero, Promo}

KeyPresets == {None, Some(Light)}

Entries(o) == {o[i] : i \in 1 .. Len(o)}

KeysOf(o) == {o[i][1] : i \in 1 .. Len(o)}

InitKey ==
    /\ cache = {}
    /\ clock = StartClock
    /\ writer = {}
    /\ \E slug \in KeySlugs, preset \in KeyPresets,
          first \in OverrideMaps, second \in OverrideMaps :
          last = [op |-> "keyInput", slug |-> slug, preset |-> preset,
                  first |-> first, second |-> second,
                  firstHash |-> None, secondHash |-> None,
                  firstKey |-> None, secondKey |-> None]

\* The first lines of renderSection, for both requests.
ComputeKeys ==
    /\ last.op = "keyInput"
    /\ last' = [last EXCEPT
                  !.op = "keys",
                  !.firstHash = SettingsHash(Some(last.first)),
                  !.secondHash = SettingsHash(Some(last.second)),
                  !.firstKey = generateCacheKey(last.slug, last.preset,
                                                SettingsHash(Some(last.first))),
                  !.secondKey = generateCacheKey(last.slug, last.preset,
                                                 SettingsHash(Some(last.second)))]
    /\ UNCHANGED <<cache, clock, writer>>

NextKey == ComputeKeys

SpecKey == InitKey /\ [][NextKey]_vars

\* ------------------------------------------------------------------------
\* Batch rendering (renderer) and the batch API handler: a specification
\* whose operations are single renders, batches and batch requests.
\* ------------------------------------------------------------------------

\* slugs.slice(0, 20)
BatchLimit == 20

\* const maxBatchSize = 20
maxBatchSize == 20

\* A variant that drops the first slug as well.
limitedSlugsButFirst(slugs) ==
    SubSeq(slugs, 2, IF Len(slugs) < BatchLimit THEN Len(slugs) ELSE BatchLimit)

limitedSlugs(slugs) ==
    SubSeq(slugs, 1, IF Len(slugs) < BatchLimit THEN Len(slugs) ELSE BatchLimit)

\* The render time every render of a batch is measured to take.
BatchElapsed == 1

\* The renders of a batch, one after the other, with the backend working.  The items run concurrently
\* under Promise.all; the items of a batch of distinct slugs use distinct
\* keys, so the order in which they reach the table does not matter.  An
\* item that throws rejects the batch; the other items still run.  A later
\* results.set(slug, ...) replaces an earlier one.
RECURSIVE RenderAll(_, _, _, _)
RenderAll(rows, t, slugs, presetSlug) ==
    IF slugs = <<>> THEN [raised |-> FALSE, results |-> {}, rows |-> rows]
    ELSE LET Step(out) ==
                 LET Join2(rest) ==
                         [raised |-> out.raised \/ rest.raised,
                          results |->
                            rest.results \cup
                              (IF \/ out.raised
                                  \/ \E e \in rest.results : e.slug = Head(slugs)
                               THEN {}
                               ELSE {[slug |-> Head(slugs), result |-> out.result]}),
                          rows |-> rest.rows]
                 IN  Join2(RenderAll(out.rows, t, Tail(slugs), presetSlug))
         IN  Step(renderSection(rows, t, Request(Head(slugs), presetSlug, None),
                                FALSE, TRUE, TRUE, BatchElapsed))

\* renderSectionsBatch(slugs, presetSlug, locals): whether it rejected, the
\* map it resolved with (as the set of its entries), the rows after the call
\* and the number of renders it started.
renderSectionsBatch(rows, t, slugs, presetSlug) ==
    LET Resolve(all) ==
            [raised |-> all.raised,
             results |-> IF all.raised THEN {} ELSE all.results,
             rows |-> all.rows,
             renders |-> Len(limitedSlugs(slugs))]
    IN  Resolve(RenderAll(rows, t, limitedSlugs(slugs), presetSlug))

\* "s01", "s02", ...: slugs that have no section.
Numbered(i) == <<115>> \o Decimal(i, 2)

Padding(n) == [i \in 1 .. n |-> Numbered(i)]

\* The slugs the short batches are made of, in the order they are listed.
CoreOrder == <<Hero, HeroColon, Broken, Promo, Bare>>

CoreSlugs == {CoreOrder[i] : i \in 1 .. Len(CoreOrder)}

\* Longest batch made of the core slugs alone.
MaxCore == 2

\* The n slugs of the order from the given position on, going round.
Rotation(start, n) ==
    [i \in 1 .. n |-> CoreOrder[((start + i - 2) % Len(CoreOrder)) + 1]]

ShortBatches ==
    {Rotation(start, n) : start \in 1 .. Len(CoreOrder), n \in 0 .. MaxCore}

\* How many slugs beyond the limit the longest batch lists.
MaxExtra == 1

\* Batches at the limit and beyond it: core slugs first, then slugs that
\* have no section up to the limit, then core slugs again beyond it.
LongBatches ==
    {Rotation(start, k) \o Padding(BatchLimit - k) \o Rotation(4, extra) :
       start \in {1, Len(CoreOrder)}, k \in 0 .. MaxCore,
       extra \in 0 .. MaxExtra}

Batches == ShortBatches \cup LongBatches

BatchPresets == {None, Some(HashLike)}

\* The json of a 200 response: one entry per requested slug, and the stats.
ResponseEntry(slug, results) ==
    IF \E e \in results : e.slug = slug
    THEN LET result == (CHOOSE e \in results : e.slug = slug).result
         IN  [slug |-> slug, success |-> Len(result.errors) = 0,
              html |-> result.html, css |-> result.css,
              error |-> IF Len(result.errors) > 0 THEN Some(result.errors[1])
                        ELSE None,
              renderTimeMs |-> result.renderTimeMs, cached |-> result.cached]
    ELSE [slug |-> slug, success |-> FALSE,
          html |-> RenderedHtml(None, None, None), css |-> EmptyCss,
          error |-> Some([text |-> "Section not rendered", slug |-> slug]),
          renderTimeMs |-> 0, cached |-> FALSE]

ResponseStats(body) ==
    [total |-> Len(body),
     successful |-> Cardinality({i \in 1 .. Len(body) : body[i].success}),
     failed |-> Cardinality({i \in 1 .. Len(body) : ~body[i].success}),
     cached |-> Cardinality({i \in 1 .. Len(body) : body[i].cached})]

\* The record of an operation of this specification: the call, the rows
\* before it, what it returned and, for a request, the response.
BatchOperation(op, sections, presetSlug, skipCache, ok, before, out, response) ==
    [op |-> op, sections |-> sections, preset |-> presetSlug,
     skipCache |-> skipCache, ok |-> ok, before |-> before,
     raised |-> out.raised, results |-> out.results, renders |-> out.renders,
     invoked |-> response.invoked, status |-> response.status,
     error |-> response.error, body |-> response.body, stats |-> ResponseStats(response.body)]

NoOutcome == [raised |-> FALSE, results |-> {}, renders |-> 0]

NoResponse == [invoked |-> FALSE, status |-> 0, error |-> "", body |-> <<>>]

InitBatch ==
    /\ cache = {}
    /\ clock = StartClock
    /\ writer = {}
    /\ last = BatchOperation("init", <<>>, None, FALSE, TRUE, {}, NoOutcome,
                             NoResponse)

\* A single render, as renderSection is exported.
RenderSectionCall(slug, presetSlug, skipCache, ok) ==
    \E out \in {renderSection(cache, clock, Request(slug, presetSlug, None),
                              skipCache, ok, ok, BatchElapsed)} :
        /\ cache' = out.rows
        /\ last' = BatchOperation("renderSection", <<slug>>, presetSlug,
                     skipCache, ok, cache,
                     [raised |-> out.raised,
                      results |-> IF out.raised THEN {}
                                  ELSE {[slug |-> slug, result |-> out.result]},
                      renders |-> 1], NoResponse)
        /\ UNCHANGED <<clock, writer>>

\* A batch, as renderSectionsBatch is exported.
RenderSectionsBatch(slugs, presetSlug) ==
    \E out \in {renderSectionsBatch(cache, clock, slugs, presetSlug)} :
        /\ cache' = out.rows
        /\ last' = BatchOperation("renderSectionsBatch", slugs, presetSlug,
                     FALSE, TRUE, cache, out, NoResponse)
        /\ UNCHANGED <<clock, writer>>

\* A variant that lets every batch through.
ExceedsBatchSizeNever(sections) == FALSE

\* sections.length > maxBatchSize
ExceedsBatchSize(sections) == Len(sections) > maxBatchSize

\* The POST handler of the batch API: 400 for an empty or oversized list,
\* else the batch; a rejected batch is answered with 500.
POST(sections, presetSlug) ==
    IF Len(sections) = 0 \/ ExceedsBatchSize(sections) THEN
        /\ last' = BatchOperation("POST", sections, presetSlug, FALSE, TRUE,
                     cache, NoOutcome,
                     [invoked |-> FALSE, status |-> 400,
                      error |-> IF Len(sections) = 0
                                THEN "Missing or invalid parameter: sections"
                                ELSE "Batch size exceeds maximum",
                      body |-> <<>>])
        /\ UNCHANGED <<cache, clock, writer>>
    ELSE
        \E out \in {renderSectionsBatch(cache, clock, sections, presetSlug)} :
            /\ cache' = out.rows
            /\ last' = BatchOperation("POST", sections, presetSlug, FALSE, TRUE,
                         cache, out,
                         IF out.raised
                         THEN [invoked |-> TRUE, status |-> 500,
                               error |-> "error.message", body |-> <<>>]
                         ELSE [invoked |-> TRUE, status |-> 200, error |-> "",
                               body |-> [i \in 1 .. Len(sections) |->
                                           ResponseEntry(sections[i], out.results)]])
            /\ UNCHANGED <<clock, writer>>

NextBatch ==
    \/ \E slug \in CoreSlugs, presetSlug \in BatchPresets, skipCache \in BOOLEAN :
          \E ok \in Faults(~skipCache) :
             RenderSectionCall(slug, presetSlug, skipCache, ok)
    \/ \E slugs \in Batches, presetSlug \in BatchPresets :
          RenderSectionsBatch(slugs, presetSlug)
    \/ \E sections \in Batches, presetSlug \in BatchPresets :
          POST(sections, presetSlug)

SpecBatch == InitBatch /\ [][NextBatch]_vars

\* ------------------------------------------------------------------------
\* The context generator on one schema object: a specification that loads a
\* schema of some shape and calls generateMockDataFromSchema on it, with
\* override merges into the returned context in between as renderSection
\* makes them.
\* ------------------------------------------------------------------------

BlockType(type, settings) == [type |-> type, settings |-> settings]

PresetBlock(type, settings) == [type |-> type, settings |-> settings]

\* "h"
KeyH == <<104>>

\* A block type with a text, an image and a paragraph of editor help.
SlideType ==
    BlockType("slide", Some(<<Setting(KeyT, "text", None),
                              Setting(KeyA, "image_picker", None),
                              Setting(KeyH, "paragraph", None)>>))

\* The settings list of a schema: absent, one setting, or a setting with a
\* default of its own followed by a header.
SettingLists ==
    {None,
     Some(<<Setting(KeyT, "text", None)>>),
     Some(<<Setting(KeyT, "text", Some(ValueAa)), Setting(KeyA, "header", None)>>),
     Some(<<Setting(KeyT, "text", None), Setting(KeyA, "color", None)>>)}

\* The block types of a schema: absent, one, two, or four of them.
BlockLists ==
    {None, Some(<<SlideType>>), Some(<<BlockType("quote", None), SlideType>>),
     Some(<<BlockType("quote", None), SlideType,
            BlockType("image", Some(<<Setting(KeyA, "image_picker", None)>>)),
            BlockType("text", Some(<<>>))>>)}

\* The first preset of a schema: null, without a block list, or with one.
FirstPresets ==
    {None,
     Some([blocks |-> None]),
     Some([blocks |-> Some(<<PresetBlock("slide", Some(<< <<KeyT, ValueBB>> >>))>>)]),
     Some([blocks |-> Some(<<PresetBlock("slide", None),
                             PresetBlock("slide", Some(<<>>))>>)]),
     Some([blocks |-> Some(<<PresetBlock("other", Some(<< <<KeyA, ValueAa>> >>))>>)])}

PresetLists == {None, Some(<<>>)} \cup {Some(<<p>>) : p \in FirstPresets}

\* The categories generateMockEntities tells apart, and one it does not.
Categories ==
    {"product", "main-product", "collection", "main-collection",
     "featured-collection", "collection-list", "hero", "slideshow",
     "image-banner", "custom"}

\* Every shape of schema under two categories, and one schema under each
\* of the others.
MockSchemas ==
    {[slug |-> Hero, category |-> category, settings |-> settings,
      blocks |-> blocks, presets |-> presets] :
        category \in {"hero", "product"}, settings \in SettingLists,
        blocks \in BlockLists, presets \in PresetLists}
    \cup
    {[slug |-> Hero, category |-> category,
      settings |-> Some(<<Setting(KeyT, "text", None)>>),
      blocks |-> Some(<<SlideType>>), presets |-> Some(<<>>)] :
        category \in Categories}

\* The presets the generator is called with: none, the colors of "light",
\* a preset with every color and font, and one with typography that lacks
\* the body font.
MockPresets ==
    {None, loadPresetData(Light),
     Some([colors |-> Some(PresetColors(Some("#d71920"), Some("#334fb4"),
                                        Some("#1a1a1a"))),
           typography |-> Some(PresetTypography(Some("Oswald"),
                                                Some("Roboto")))]),
     Some([colors |-> None,
           typography |-> Some(PresetTypography(Some("Oswald"), None))])}

\* The overrides a render is called with: { t: "Aa" }, and
\* { a: "BB", h: "Aa" }, whose second key is no setting of the section.
CustomSettings == {OvAa, << <<KeyA, ValueBB>>, <<KeyH, ValueAa>> >>}

\* Most calls of the generator on the schema object.
MaxCalls == 3

InitMock ==
    /\ cache = {}
    /\ clock = StartClock
    /\ writer = {}
    /\ \E schema \in MockSchemas :
          last = [op |-> "load", original |-> schema, schema |-> schema,
                  preset |-> None, customSettings |-> <<>>,
                  raised |-> FALSE, context |-> NoContext, history |-> <<>>]

\* const context = generateMockDataFromSchema(sectionData, presetData)
GenerateMockData(preset) ==
    /\ Len(last.history) < MaxCalls
    /\ \E out \in {generateMockDataFromSchema(last.schema, preset)} :
          last' = [last EXCEPT
                     !.op = "generate", !.schema = out.schema,
                     !.preset = preset, !.raised = out.raised,
                     !.context = out.context,
                     !.history = Append(@, [preset |-> preset,
                                            raised |-> out.raised,
                                            context |-> out.context])]
    /\ UNCHANGED <<cache, clock, writer>>

\* Object.assign(context.section.settings, customSettings): the settings of
\* the section are an object the generator made, not one of the schema.
MergeOverrides(customSettings) ==
    /\ last.op = "generate" /\ ~last.raised
    /\ last' = [last EXCEPT
                  !.op = "merge", !.customSettings = customSettings,
                  !.context.section.settings = ObjectAssign(@, customSettings)]
    /\ UNCHANGED <<cache, clock, writer>>

NextMock ==
    \/ \E preset \in MockPresets : GenerateMockData(preset)
    \/ \E customSettings \in CustomSettings : MergeOverrides(customSettings)

SpecMock == InitMock /\ [][NextMock]_vars

\* ------------------------------------------------------------------------
\* Parsing and rendering a template (engine.ts): a specification that loads
\* one template, as its sequence of top-level tokens, and renders it.
\* ------------------------------------------------------------------------

\* The tags registered with a body, and the name that ends each.
BlockTags == {"schema", "style", "javascript", "form", "paginate"}

EndOf ==
    [schema |-> "endschema", style |-> "endstyle",
     javascript |-> "endjavascript", form |-> "endform",
     paginate |-> "endpaginate"]

EndTags == {EndOf[name] : name \in BlockTags}

\* A token of markup, which has no name, and a tag token.
HtmlToken == [kind |-> "html", name |-> ""]

TagToken(name) == [kind |-> "tag", name |-> name]

\* while (remainTokens.length) { const token = remainTokens.shift();
\*   if (token?.name === end) break; this.content.push(token) }
\* The loop ends at the end tag or when no token is left.
RECURSIVE ConsumeUntil(_, _)
ConsumeUntil(remainTokens, end) ==
    IF remainTokens = <<>>
    THEN [content |-> <<>>, remainTokens |-> <<>>]
    ELSE IF Head(remainTokens).name = end
    THEN [content |-> <<>>, remainTokens |-> Tail(remainTokens)]
    ELSE LET rest == ConsumeUntil(Tail(remainTokens), end)
         IN  [rest EXCEPT !.content = <<Head(remainTokens)>> \o @]

\* The parse of the engine over the top-level tokens: markup is kept, a
\* registered tag parses itself off the remaining tokens, and a tag name
\* that is not registered (an end tag met outside its block) is an error.
RECURSIVE parse(_)
parse(tokens) ==
    IF tokens = <<>>
    THEN [raised |-> FALSE, templates |-> <<>>]
    ELSE LET token == Head(tokens)
         IN  IF token.kind = "html"
             THEN LET rest == parse(Tail(tokens))
                  IN  [rest EXCEPT
                         !.templates = <<[name |-> "", content |-> <<>>]>> \o @]
             ELSE IF token.name \in BlockTags
             THEN LET body == ConsumeUntil(Tail(tokens), EndOf[token.name])
                      rest == parse(body.remainTokens)
                  IN  [rest EXCEPT
                         !.templates = <<[name |-> token.name,
                                          content |-> body.content]>> \o @]
             ELSE [raised |-> TRUE, templates |-> <<>>]

\* The render of one parsed template.  schema renders nothing and does not
\* read its content; the other block tags hand each token of their content
\* to this.liquid.renderer.renderToken, which renders it or throws.
Rendered(content) == [i \in 1..Len(content) |-> "token"]

render(template, renderToken) ==
    IF template.name = "" THEN [raised |-> FALSE, html |-> <<"markup">>]
    ELSE IF template.name = "schema" THEN [raised |-> FALSE, html |-> <<>>]
    ELSE IF template.content # <<>> /\ ~renderToken
    THEN [raised |-> TRUE, html |-> <<>>]
    ELSE [raised |-> FALSE,
          html |->
            CASE template.name = "style" ->
                   <<"<style>">> \o Rendered(template.content)
                                 \o <<"</style>">>
              [] template.name = "javascript" ->
                   <<"<script>">> \o Rendered(template.content)
                                  \o <<"</script>">>
              [] template.name = "form" ->
                   <<"<form>">> \o Rendered(template.content)
                                \o <<"</form>">>
              [] OTHER -> Rendered(template.content)]

RECURSIVE renderTemplates(_, _)
renderTemplates(templates, renderToken) ==
    IF templates = <<>> THEN [raised |-> FALSE, html |-> <<>>]
    ELSE LET first == render(Head(templates), renderToken)
             rest == renderTemplates(Tail(templates), renderToken)
         IN  IF first.raised \/ rest.raised
             THEN [raised |-> TRUE, html |-> <<>>]
             ELSE [raised |-> FALSE, html |-> first.html \o rest.html]

\* engine.parseAndRender(template, context)
parseAndRender(template, renderToken) ==
    LET parsed == parse(template)
    IN  IF parsed.raised
        THEN [raised |-> TRUE, message |-> "tag not found", html |-> <<>>]
        ELSE LET out == renderTemplates(parsed.templates, renderToken)
             IN  IF out.raised
                 THEN [raised |-> TRUE,
                       message |-> "renderToken is not a function",
                       html |-> <<>>]
                 ELSE [raised |-> FALSE, message |-> "", html |-> out.html]

\* `<div class="error">Render error: ${message}</div>`
RenderError(message) ==
    <<"<div class=\"error\">Render error: ", message, "</div>">>

\* try { html = await engine.parseAndRender(template, context) }
\* catch (error) { errors.push(message); html = the error markup }
renderStep(template, renderToken) ==
    LET out == parseAndRender(template, renderToken)
    IN  IF out.raised
        THEN [raised |-> FALSE, html |-> RenderError(out.message),
              errors |-> <<out.message>>]
        ELSE [raised |-> FALSE, html |-> out.html, errors |-> <<>>]

\* Longest template, in tokens.
MaxTokens == 3

Tokens == {HtmlToken} \cup {TagToken(name) : name \in BlockTags \cup EndTags}

Templates == UNION {[1..n -> Tokens] : n \in 0..MaxTokens}

InitParse ==
    /\ cache = {}
    /\ clock = StartClock
    /\ writer = {}
    /\ \E template \in Templates :
          last = [op |-> "load", template |-> template, renderToken |-> TRUE,
                  raised |-> FALSE, html |-> <<>>, errors |-> <<>>,
                  stored |-> FALSE]

\* The render of the loaded template by renderSection, with caching
\* enabled: the try block, and the test that guards the write.
RenderTemplate(renderToken) ==
    /\ last.op = "load"
    /\ \E out \in {renderStep(last.template, renderToken)} :
          last' = [last EXCEPT
                     !.op = "renderSection", !.renderToken = renderToken,
                     !.raised = out.raised, !.html = out.html,
                     !.errors = out.errors,
                     !.stored = ShouldCache(FALSE, out.errors)]
    /\ UNCHANGED <<cache, clock, writer>>

NextParse == \E renderToken \in BOOLEAN : RenderTemplate(renderToken)

SpecParse == InitParse /\ [][NextParse]_vars

\* ------------------------------------------------------------------------
\* The money filters (engine.ts): a specification that draws an amount in
\* cents and applies one filter to it.  An integer is the sequence of its
\* decimal digits, most significant first, and zero is the empty sequence;
\* a Number is a double, kept exactly as m / 2^k.
\* ------------------------------------------------------------------------

RECURSIVE Strip(_)
Strip(digits) ==
    IF digits # <<>> /\ Head(digits) = 0 THEN Strip(Tail(digits)) ELSE digits

RECURSIVE Digits(_)
Digits(n) == IF n = 0 THEN <<>> ELSE Append(Digits(n \div 10), n % 10)

\* digits * k + carry
RECURSIVE Times(_, _, _)
Times(digits, k, carry) ==
    IF digits = <<>> THEN Digits(carry)
    ELSE LET n == Len(digits)
             t == digits[n] * k + carry
         IN  Append(Times(SubSeq(digits, 1, n - 1), k, t \div 10), t % 10)

AddSmall(digits, c) == Times(digits, 1, c)

RECURSIVE LongDiv(_, _, _, _)
LongDiv(digits, d, q, r) ==
    IF digits = <<>> THEN [q |-> Strip(q), r |-> r]
    ELSE LongDiv(Tail(digits), d,
                 Append(q, (r * 10 + Head(digits)) \div d),
                 (r * 10 + Head(digits)) % d)

\* Quotient and remainder of an integer by a small divisor.
DivSmall(digits, d) == LongDiv(digits, d, <<>>, 0)

Less(a, b) ==
    \/ Len(a) < Len(b)
    \/ /\ Len(a) = Len(b)
       /\ \E i \in 1..Len(a) :
             /\ a[i] < b[i]
             /\ \A j \in 1..(i - 1) : a[j] = b[j]

\* digits * 2^j and floor(digits / 2^j), ten bits at a time.
RECURSIVE ShiftLeft(_, _)
ShiftLeft(digits, j) ==
    IF j <= 10 THEN Times(digits, 2 ^ j, 0)
    ELSE ShiftLeft(Times(digits, 1024, 0), j - 10)

RECURSIVE ShiftRight(_, _)
ShiftRight(digits, j) ==
    IF j <= 10 THEN DivSmall(digits, 2 ^ j).q
    ELSE ShiftRight(DivSmall(digits, 1024).q, j - 10)

\* 2^53: a double has 53 significant bits.
TwoTo53 == <<9, 0, 0, 7, 1, 9, 9, 2, 5, 4, 7, 4, 0, 9, 9, 2>>

\* Largest binary scaling of a quotient: an integer below 2^53 over a
\* divisor below 2^7.
MaxScale == 61

\* The least s for which floor(x * 2^s / d) has 54 bits (the significand
\* and one guard bit), with that quotient and its remainder.
Scale(x, d) ==
    LET Wide(s) == ~Less(DivSmall(ShiftLeft(x, s), d).q, TwoTo53)
        With(s, out) == [q |-> out.q, r |-> out.r, s |-> s]
        At(s) == With(s, DivSmall(ShiftLeft(x, s), d))
    IN  At(CHOOSE s \in 0..MaxScale :
               Wide(s) /\ (s = 0 \/ ~Wide(s - 1)))

\* Round to nearest, ties to even: the guard bit decides, the remainder
\* and the last bit of the significand break the tie.
RoundHalfEven(q, r, s) ==
    LET Pick(half) ==
            IF half.r = 1 /\ (r # 0 \/ DivSmall(half.q, 2).r = 1)
            THEN AddSmall(half.q, 1) ELSE half.q
    IN  [m |-> Pick(DivSmall(q, 2)), k |-> s - 1]

\* cents / d on Numbers, for an integer cents below 2^53 and a small d.
Divide(cents, d) ==
    IF cents = <<>> THEN [m |-> <<>>, k |-> 0]
    ELSE LET Round(out) == RoundHalfEven(out.q, out.r, out.s)
         IN  Round(Scale(cents, d))

\* dollars % 1 === 0
IsWhole(m, k) == ShiftLeft(ShiftRight(m, k), k) = m

\* A variant that drops the digits beyond the last one kept.
NearestBelow(x, scale) == ShiftRight(Times(x.m, scale, 0), x.k)

\* The integer n for which n / 10^fractionDigits - x is closest to zero,
\* the larger one when two are as close.
Nearest(x, scale) ==
    IF x.k = 0 THEN Times(x.m, scale, 0)
    ELSE DivSmall(AddSmall(ShiftRight(Times(x.m, scale, 0), x.k - 1), 1), 2).q

TwoDigits(n) == <<48 + (n \div 10), 48 + (n % 10)>>

DigitsText(digits) ==
    IF digits = <<>> THEN <<48>> ELSE [i \in 1..Len(digits) |-> 48 + digits[i]]

\* Number.prototype.toFixed(fractionDigits), for 0 and 2 digits.
toFixed(x, fractionDigits) ==
    IF fractionDigits = 0 THEN DigitsText(Nearest(x, 1))
    ELSE LET Show(n) ==
                 DigitsText(DivSmall(n, 100).q) \o <<Dot>>
                     \o TwoDigits(DivSmall(n, 100).r)
         IN  Show(Nearest(x, 100))

Dollar == 36

USD == <<Space, 85, 83, 68>>

money(cents) == <<Dollar>> \o toFixed(Divide(cents, 100), 2)

money_with_currency(cents) ==
    <<Dollar>> \o toFixed(Divide(cents, 100), 2) \o USD

money_without_currency(cents) == <<Dollar>> \o toFixed(Divide(cents, 100), 2)

money_without_trailing_zeros(cents) ==
    LET Show(dollars) ==
            IF IsWhole(dollars.m, dollars.k) THEN toFixed(dollars, 0)
            ELSE toFixed(dollars, 2)
    IN  <<Dollar>> \o Show(Divide(cents, 100))

\* Largest of the everyday amounts.
MaxCents == 400

\* 100 * 2^46, less one hundred: from 2^46 dollars on, neighbouring doubles
\* are more than a cent apart.
NearStart == <<7, 0, 3, 6, 8, 7, 4, 4, 1, 7, 7, 6, 6, 3, 0, 0>>

\* How many amounts from NearStart on are drawn.
MaxNear == 200

\* The last hundred below 2^53.
TopStart == <<9, 0, 0, 7, 1, 9, 9, 2, 5, 4, 7, 4, 0, 9, 0, 0>>

MaxTop == 91

Amounts ==
    {Digits(n) : n \in 0..MaxCents}
        \cup {AddSmall(NearStart, j) : j \in 0..MaxNear}
        \cup {AddSmall(TopStart, j) : j \in 0..MaxTop}

InitMoney ==
    /\ cache = {}
    /\ clock = StartClock
    /\ writer = {}
    /\ \E cents \in Amounts : last = [op |-> "load", cents |-> cents, text |-> <<>>]

Filter(name, text) ==
    /\ last.op = "load"
    /\ last' = [last EXCEPT !.op = name, !.text = text]
    /\ UNCHANGED <<cache, clock, writer>>

Money == Filter("money", money(last.cents))

MoneyWithCurrency ==
    Filter("money_with_currency", money_with_currency(last.cents))

MoneyWithoutCurrency ==
    Filter("money_without_currency", money_without_currency(last.cents))

MoneyWithoutTrailingZeros ==
    Filter("money_without_trailing_zeros",
           money_without_trailing_zeros(last.cents))

NextMoney ==
    \/ Money
    \/ MoneyWithCurrency
    \/ MoneyWithoutCurrency
    \/ MoneyWithoutTrailingZeros

SpecMoney == InitMoney /\ [][NextMoney]_vars

\* ------------------------------------------------------------------------
\* The filters that write markup (engine.ts): a specification that draws
\* the caller's text and applies one filter to it.
\* ------------------------------------------------------------------------

Ampersand == 38

LessThan == 60

GreaterThan == 62

Apostrophe == 39

\* <img src="
ImgSrc ==
    <<60, 105, 109, 103, 32, 115, 114, 99, 61, 34>>

\* " alt="
AltAttr ==
    <<34, 32, 97, 108, 116, 61, 34>>

\* " loading="lazy" />
LazyClose ==
    <<34, 32, 108, 111, 97, 100, 105, 110, 103, 61, 34, 108, 97, 122, 121,
    34, 32, 47, 62>>

\* " />
SlashClose ==
    <<34, 32, 47, 62>>

\* <link rel="stylesheet" href="
LinkHref ==
    <<60, 108, 105, 110, 107, 32, 114, 101, 108, 61, 34, 115, 116, 121,
    108, 101, 115, 104, 101, 101, 116, 34, 32, 104, 114, 101, 102, 61,
    34>>

\* <script src="
ScriptSrc ==
    <<60, 115, 99, 114, 105, 112, 116, 32, 115, 114, 99, 61, 34>>

\* "></script>
ScriptClose ==
    <<34, 62, 60, 47, 115, 99, 114, 105, 112, 116, 62>>

\* <a href="
AnchorHref ==
    <<60, 97, 32, 104, 114, 101, 102, 61, 34>>

\*  title="
TitleAttr ==
    <<32, 116, 105, 116, 108, 101, 61, 34>>

\* </a>
AnchorClose ==
    <<60, 47, 97, 62>>

\* /collections/all/
AllPath ==
    <<47, 99, 111, 108, 108, 101, 99, 116, 105, 111, 110, 115, 47, 97,
    108, 108, 47>>

\* /collections/vendors?q=
VendorsPath ==
    <<47, 99, 111, 108, 108, 101, 99, 116, 105, 111, 110, 115, 47, 118,
    101, 110, 100, 111, 114, 115, 63, 113, 61>>

\* /collections/types?q=
TypesPath ==
    <<47, 99, 111, 108, 108, 101, 99, 116, 105, 111, 110, 115, 47, 116,
    121, 112, 101, 115, 63, 113, 61>>

\* Image
ImageText ==
    <<73, 109, 97, 103, 101>>

\* Media
MediaText ==
    <<77, 101, 100, 105, 97>>

\* &amp;
Amp ==
    <<38, 97, 109, 112, 59>>

\* &lt;
Lt ==
    <<38, 108, 116, 59>>

\* &gt;
Gt ==
    <<38, 103, 116, 59>>

\* &quot;
Quot ==
    <<38, 113, 117, 111, 116, 59>>

\* &#039;
Apos ==
    <<38, 35, 48, 51, 57, 59>>

\* str.replace(/ch/g, with)
RECURSIVE ReplaceAll(_, _, _)
ReplaceAll(str, ch, with) ==
    IF str = <<>> THEN <<>>
    ELSE (IF Head(str) = ch THEN with ELSE <<Head(str)>>)
             \o ReplaceAll(Tail(str), ch, with)

escapeHtml(str) ==
    ReplaceAll(ReplaceAll(ReplaceAll(ReplaceAll(ReplaceAll(str,
        Ampersand, Amp), LessThan, Lt), GreaterThan, Gt), Quote, Quot),
        Apostrophe, Apos)

\* The characters encodeURIComponent keeps: letters, digits and -_.!~*'()
UnreservedChars ==
    (48..57) \cup (65..90) \cup (97..122)
        \cup {45, 95, 46, 33, 126, 42, 39, 40, 41}

UpperHex(d) == IF d < 10 THEN 48 + d ELSE 55 + d

\* encodeURIComponent, on text below U+0080.
RECURSIVE encodeURIComponent(_)
encodeURIComponent(str) ==
    IF str = <<>> THEN <<>>
    ELSE (IF Head(str) \in UnreservedChars THEN <<Head(str)>>
          ELSE <<37, UpperHex(Head(str) \div 16), UpperHex(Head(str) % 16)>>)
             \o encodeURIComponent(Tail(str))

\* `https://placehold.co/${width}x${height}/e2e8f0/64748b?text=Preview`
getPlaceholderImage(width, height) ==
    <<104, 116, 116, 112, 115, 58, 47, 47, 112, 108, 97, 99, 101, 104,
      111, 108, 100, 46, 99, 111, 47>>
        \o DigitsText(Digits(width)) \o <<120>> \o DigitsText(Digits(height))
        \o <<47, 101, 50, 101, 56, 102, 48, 47, 54, 52, 55, 52, 56, 98,
           63, 116, 101, 120, 116, 61, 80, 114, 101, 118, 105, 101,
           119>>

image_tag(src, alt) ==
    LET url == IF src # None THEN src[1] ELSE getPlaceholderImage(400, 400)
        altText == IF alt # <<>> THEN alt ELSE ImageText
    IN  ImgSrc \o url \o AltAttr \o escapeHtml(altText) \o LazyClose

stylesheet_tag(url) == LinkHref \o escapeHtml(url) \o SlashClose

script_tag(url) == ScriptSrc \o escapeHtml(url) \o ScriptClose

link_to(label, url, title) ==
    LET titleAttr == IF title # <<>>
                     THEN TitleAttr \o escapeHtml(title) \o <<Quote>>
                     ELSE <<>>
    IN  AnchorHref \o escapeHtml(IF url # <<>> THEN url ELSE <<35>>)
            \o <<Quote>> \o titleAttr \o <<GreaterThan>> \o label
            \o AnchorClose

link_to_tag(label, tag) ==
    AnchorHref \o AllPath \o tag \o <<Quote, GreaterThan>> \o label
        \o AnchorClose

link_to_vendor(vendor) ==
    AnchorHref \o VendorsPath \o encodeURIComponent(vendor)
        \o <<Quote, GreaterThan>> \o vendor \o AnchorClose

link_to_type(type) ==
    AnchorHref \o TypesPath \o encodeURIComponent(type)
        \o <<Quote, GreaterThan>> \o type \o AnchorClose

\* media is { preview_image: { src }, alt }, the source given or absent.
media_tag(src, alt) ==
    LET url == IF src # None /\ src[1] # <<>> THEN src[1]
               ELSE getPlaceholderImage(400, 400)
    IN  ImgSrc \o url \o AltAttr
            \o escapeHtml(IF alt # <<>> THEN alt ELSE MediaText)
            \o SlashClose

\* The characters the caller's text is made of: a " < > & '
TextChars == {97, Quote, LessThan, GreaterThan, Ampersand, Apostrophe}

\* Longest text, and longest title.
MaxText == 2

MaxTitle == 1

Texts == UNION {[1..n -> TextChars] : n \in 0..MaxText}

Titles == UNION {[1..n -> TextChars] : n \in 0..MaxTitle}

\* The label of a link, and the source of an image.
LabelText == <<76>>

Sources == {None, Some(<<97>>)}

InitFilter ==
    /\ cache = {}
    /\ clock = StartClock
    /\ writer = {}
    /\ \E text \in Texts, title \in Titles :
          last = [op |-> "load", text |-> text, title |-> title,
                  output |-> <<>>]

Apply(name, output) ==
    /\ last.op = "load"
    /\ last' = [last EXCEPT !.op = name, !.output = output]
    /\ UNCHANGED <<cache, clock, writer>>

ImageTag(src) == Apply("image_tag", image_tag(src, last.text))

StylesheetTag == Apply("stylesheet_tag", stylesheet_tag(last.text))

ScriptTag == Apply("script_tag", script_tag(last.text))

LinkTo == Apply("link_to", link_to(LabelText, last.text, last.title))

LinkToTag == Apply("link_to_tag", link_to_tag(LabelText, last.text))

LinkToVendor == Apply("link_to_vendor", link_to_vendor(last.text))

LinkToType == Apply("link_to_type", link_to_type(last.text))

MediaTag(src) == Apply("media_tag", media_tag(src, last.text))

NextFilter ==
    \/ \E src \in Sources : ImageTag(src)
    \/ StylesheetTag
    \/ ScriptTag
    \/ LinkTo
    \/ LinkToTag
    \/ LinkToVendor
    \/ LinkToType
    \/ \E src \in Sources : MediaTag(src)

SpecFilter == InitFilter /\ [][NextFilter]_vars

\* ------------------------------------------------------------------------
\* Renders in flight (renderer, cache.ts): a specification in which calls of
\* renderSection for one section advance from one await to the next,
\* interleaved with each other and with invalidateSectionCache.
\* ------------------------------------------------------------------------

\* How many calls of renderSection are made, and how many invalidations.
MaxRenders == 2

MaxInvalidations == 2

Renders == 1 .. MaxRenders

\* The request every call makes.
RaceRequest == Request(Hero, None, None)

\* Where each call stands, whether an invalidation completed since it
\* started, and how many invalidations completed.
InitRace ==
    /\ cache = {}
    /\ clock = StartClock
    /\ writer = {}
    /\ last = [op |-> "init", call |-> 0,
               pc |-> [c \in Renders |-> "idle"],
               overtaken |-> [c \in Renders |-> FALSE],
               cached |-> [c \in Renders |-> FALSE],
               invalidations |-> 0, count |-> 0]

\* renderSection is called: the key is computed and the lookup is issued.
StartRender(c) ==
    /\ last.pc[c] = "idle"
    /\ last' = [last EXCEPT !.op = "start", !.call = c,
                            !.pc[c] = "getCachedPreview"]
    /\ UNCHANGED <<cache, clock, writer>>

\* const cached = await getCachedPreview(cacheKey, locals): a hit returns.
AwaitLookup(c) ==
    /\ last.pc[c] = "getCachedPreview"
    /\ \E cached \in {getCachedPreview(cache, clock, CacheKeyOf(RaceRequest),
                                       TRUE)} :
          last' = [last EXCEPT
                     !.op = "getCachedPreview", !.call = c,
                     !.cached[c] = cached # None,
                     !.pc[c] = IF cached # None THEN "returned"
                               ELSE "parseAndRender"]
    /\ UNCHANGED <<cache, clock, writer>>

\* The section, the template and the context are loaded and the template
\* is rendered; the write is issued.
AwaitRender(c) ==
    /\ last.pc[c] = "parseAndRender"
    /\ last' = [last EXCEPT !.op = "parseAndRender", !.call = c,
                            !.pc[c] = "setCachedPreview"]
    /\ UNCHANGED <<cache, clock, writer>>

\* await setCachedPreview(cacheKey, ...): the row is stored and the call
\* returns.
AwaitWrite(c) ==
    /\ last.pc[c] = "setCachedPreview"
    /\ cache' = setCachedPreview(cache, clock, CacheKeyOf(RaceRequest),
                  RaceRequest.slug, RaceRequest.preset,
                  [html |-> RenderedHtml(RaceRequest.slug, RaceRequest.preset,
                                         RaceRequest.settings),
                   css |-> PreviewCss(RaceRequest.slug),
                   renderTimeMs |-> BatchElapsed],
                  TtlMinutes, TRUE)
    /\ writer' = {[cache_key |-> CacheKeyOf(RaceRequest), call |-> c]}
    /\ last' = [last EXCEPT !.op = "setCachedPreview", !.call = c,
                            !.pc[c] = "returned"]
    /\ UNCHANGED clock

\* invalidateSectionCache(slug) runs its statement and completes: every
\* call that has started and not returned is now one that started before
\* an invalidation completed.
InvalidateDuringRenders ==
    /\ last.invalidations < MaxInvalidations
    /\ cache' = cache \ SectionRows(cache, RaceRequest.slug)
    /\ writer' = Prune(writer, cache \ SectionRows(cache, RaceRequest.slug))
    /\ last' = [last EXCEPT
                  !.op = "invalidateSectionCache", !.call = 0,
                  !.invalidations = @ + 1,
                  !.count = Cardinality(SectionRows(cache, RaceRequest.slug)),
                  !.overtaken = [c \in Renders |->
                                   \/ last.overtaken[c]
                                   \/ last.pc[c] \notin {"idle", "returned"}]]
    /\ UNCHANGED clock

NextRace ==
    \/ \E c \in Renders : StartRender(c)
    \/ \E c \in Renders : AwaitLookup(c)
    \/ \E c \in Renders : AwaitRender(c)
    \/ \E c \in Renders : AwaitWrite(c)
    \/ InvalidateDuringRenders

SpecRace == InitRace /\ [][NextRace]_vars

\* ------------------------------------------------------------------------
\* Generated templates (engine.ts): a specification that builds the mock
\* context of a section without a stored template and renders the template
\* generateTemplateFromSchema makes for its category.
\* ------------------------------------------------------------------------

\* A value of the context as a filter receives it: a string with its text,
\* null or undefined, a number, or an object.
StringValue(text) == [kind |-> "string", text |-> text]

NullValue == [kind |-> "null", text |-> <<>>]

NumberValue == [kind |-> "number", text |-> <<>>]

ObjectValue == [kind |-> "object", text |-> <<>>]

\* The value under a key of a settings object; undefined when absent.
SettingValue(settings, key) ==
    IF ~Has(settings, key) \/ Get(settings, key) = Null THEN NullValue
    ELSE StringValue(Get(settings, key))

\* Truthiness in Liquid's `if` and in the filters' `!src`: null and the
\* empty string are not (the numbers of the context are not zero).
IsTruthy(value) ==
    value.kind \in {"number", "object"}
        \/ (value.kind = "string" /\ value.text # <<>>)

\* "http"
Http == <<104, 116, 116, 112>>

\* The image_url filter: the placeholder for a falsy src; src.startsWith of
\* what is no string is not a function, and the call throws.
image_url(src, width) ==
    IF ~IsTruthy(src)
    THEN [threw |-> FALSE, value |-> StringValue(getPlaceholderImage(400, 400))]
    ELSE IF src.kind # "string" THEN [threw |-> TRUE, value |-> NullValue]
    ELSE IF Len(src.text) >= Len(Http) /\ SubSeq(src.text, 1, Len(Http)) = Http
    THEN [threw |-> FALSE, value |-> src]
    ELSE [threw |-> FALSE,
          value |-> StringValue(getPlaceholderImage(width, width))]

\* "image", "logo"
KeyImage == <<105, 109, 97, 103, 101>>

KeyLogo == <<108, 111, 103, 111>>

\* {% for block in section.blocks %} ... {% when 'image' %}
\* {% if block.settings.image %}{{ block.settings.image | image_url }}:
\* the values the filter is applied to.
RECURSIVE BlockImages(_)
BlockImages(blocks) ==
    IF blocks = <<>> THEN <<>>
    ELSE LET image == SettingValue(Head(blocks).settings, KeyImage)
         IN  (IF Head(blocks).type = "image" /\ IsTruthy(image)
              THEN <<image>> ELSE <<>>) \o BlockImages(Tail(blocks))

\* {% for product in collection.products limit: 8 %}
\* {% if product.featured_image %}{{ product.featured_image | image_url }}
ProductImages(products) ==
    [i \in 1 .. (IF Len(products) < 8 THEN Len(products) ELSE 8) |->
        ObjectValue]

\* The values image_url is applied to, and the width it is given, when the
\* template generated for the section's category is rendered against the
\* context.
ImageUrlInputs(section, context) ==
    IF section.category = "hero"
    THEN [width |-> 800, values |-> BlockImages(context.section.blocks)]
    ELSE IF section.category \in {"collection", "featured-collection"}
    THEN [width |-> 400,
          values |-> IF context.entities.collection # None
                     THEN ProductImages(context.entities.collection[1].products)
                     ELSE <<>>]
    ELSE IF section.category = "product"
    THEN [width |-> 600,
          values |-> IF context.entities.product # None
                     THEN <<ObjectValue>> ELSE <<>>]
    ELSE IF section.category = "header"
    THEN [width |-> 200,
          values |-> LET logo == SettingValue(context.section.settings, KeyLogo)
                     IN  IF IsTruthy(logo) THEN <<logo>> ELSE <<>>]
    ELSE IF section.category = "footer"
    THEN [width |-> 0, values |-> <<>>]
    ELSE [width |-> 600, values |-> BlockImages(context.section.blocks)]

\* engine.parseAndRender(generateTemplateFromSchema(sectionData), context)
\* inside renderSection's try: the messages pushed to errors.  money is
\* applied to the products' prices, which are numbers, default and
\* image_tag take any value, and date takes 'now'; image_url is the filter
\* that can throw, and a throw ends the render with one message.
GeneratedTemplateErrors(section, context) ==
    LET inputs == ImageUrlInputs(section, context)
    IN  IF \E i \in 1 .. Len(inputs.values) :
               image_url(inputs.values[i], inputs.width).threw
        THEN 1 ELSE 0

\* "https://a/b.png": a default some schemas give an image setting.
ImageDefault ==
    <<104, 116, 116, 112, 115, 58, 47, 47, 97, 47, 98, 46, 112, 110, 103>>

\* The categories generateTemplateFromSchema tells apart, and one it does
\* not.
TemplateCategories ==
    {"hero", "collection", "featured-collection", "product", "header",
     "footer", "custom"}

\* The settings of the sections: a heading, or a logo picker.
TemplateSettingLists ==
    {<<Setting(KeyT, "text", None)>>,
     <<Setting(KeyLogo, "image_picker", None)>>}

\* The block types: none, an image block whose picker has no default, or
\* one whose image has a default address.
TemplateBlockLists ==
    {<<>>,
     <<BlockType("image", Some(<<Setting(KeyImage, "image_picker", None)>>))>>,
     <<BlockType("text", Some(<<Setting(KeyT, "text", None)>>)),
       BlockType("image", Some(<<Setting(KeyImage, "text",
                                         Some(ImageDefault))>>))>>}

TemplateSchemas ==
    {[slug |-> Hero, category |-> category, settings |-> Some(settings),
      blocks |-> Some(blocks), presets |-> Some(<<>>)] :
        category \in TemplateCategories, settings \in TemplateSettingLists,
        blocks \in TemplateBlockLists}

\* A section is loaded for which loadSectionTemplate returned null.
InitTemplate ==
    /\ cache = {}
    /\ clock = StartClock
    /\ writer = {}
    /\ \E section \in TemplateSchemas :
          last = [op |-> "load", section |-> section, preset |-> None,
                  context |-> NoContext, errors |-> 0]

\* const context = generateMockDataFromSchema(sectionData, presetData)
GenerateContext(preset) ==
    /\ last.op = "load"
    /\ \E out \in {generateMockDataFromSchema(last.section, preset)} :
          /\ ~out.raised
          /\ last' = [last EXCEPT !.op = "generateMockDataFromSchema",
                                  !.preset = preset,
                                  !.context = out.context]
    /\ UNCHANGED <<cache, clock, writer>>

\* template = generateTemplateFromSchema(sectionData), rendered in the try.
RenderGenerated ==
    /\ last.op = "generateMockDataFromSchema"
    /\ last' = [last EXCEPT
                  !.op = "parseAndRender",
                  !.errors = GeneratedTemplateErrors(last.section,
                                                     last.context)]
    /\ UNCHANGED <<cache, clock, writer>>

NextTemplate ==
    \/ \E preset \in MockPresets : GenerateContext(preset)
    \/ RenderGenerated

SpecTemplate == InitTemplate /\ [][NextTemplate]_vars

\* ------------------------------------------------------------------------
\* Properties
\* ------------------------------------------------------------------------

IsRender(o) == o.op = "renderSection"

SameRequest(o1, o2) ==
    /\ o1.slug = o2.slug
    /\ o1.preset = o2.preset
    /\ o1.settings = o2.settings

\* The renderSection call that wrote the row.
WriterOf(r) == CHOOSE w \in writer : w.cache_key = r.cache_key

\* C1: an entry whose expiresAt has passed is never returned by
\* getCachedPreview, whether or not the sweep has run.
C1_ExpiredEntryIsAbsent ==
    \A r \in cache :
        TextLess(r.expires_at, toISOString(clock))
            => getCachedPreview(cache, clock, r.cache_key, TRUE) = None

\* The second of two consecutive cached renders of the same request of an
\* error-free section, with no backend failure in either.
TwoRenders(o) ==
    /\ IsRender(o) /\ o.prior # None
    /\ ~o.skipCache /\ o.getOk
    /\ SchemaExists(o.slug) /\ ~TemplateThrows(o.slug)

\* C2 (as stated): of two consecutive renders of the same request the first
\* returns cached=false and the second cached=true with the same html.
C2_FirstUncachedSecondCached ==
    TwoRenders(last) => /\ ~last.prior[1].cached
                        /\ last.result.cached
                        /\ last.result.html = last.prior[1].html

\* C2 (amended): when the first of two consecutive renders of the same
\* request finds no live entry (returns cached=false), the second returns
\* cached=true with the html of the first.
C2_MissThenHit ==
    (TwoRenders(last) /\ ~last.prior[1].cached)
        => /\ last.result.cached
           /\ last.result.html = last.prior[1].html

\* A render served from the cache right after a render of the same request
\* that was not.
C2_Witness ==
    /\ TwoRenders(last) /\ ~last.prior[1].cached
    /\ last.result.cached
    /\ \E r \in cache : r.cache_key = last.key /\ r.html = last.result.html

\* C3: every cache entry was written by a render whose errors list was
\* empty; no entry holds an error marker.
C3_OnlyErrorFreeRendersCached ==
    \A r \in cache :
        /\ ~IsErrorMarker(r.html)
        /\ \E w \in writer :
              /\ w.cache_key = r.cache_key
              /\ w.errors = <<>>
              /\ r.html = RenderedHtml(w.slug, w.preset, w.settings)

\* A failing render with caching enabled, next to entries in the cache.
C3_Witness ==
    /\ IsRender(last) /\ ~last.skipCache
    /\ Len(last.result.errors) > 0
    /\ cache # {}

\* C4: a render of a slug with no schema returns the error marker, exactly
\* the not-found message, cached=false, and writes nothing to the cache.
C4_MissingSchemaResult ==
    IsRender(last) /\ ~SchemaExists(last.slug)
        => /\ last.result.html = NotFoundHtml(last.slug)
           /\ last.result.errors = <<NotFoundMessage(last.slug)>>
           /\ ~last.result.cached
           /\ ~last.wrote

\* C5: a render whose template throws returns exactly one error and
\* cached=false and leaves the cache alone, and the next render of the same
\* request, still throwing, is again uncached with a non-empty errors list.
C5_ThrowingRenderNeverCached ==
    [][/\ (IsRender(last') /\ last'.threw)
            => /\ Len(last'.result.errors) = 1
               /\ ~last'.result.cached
               /\ cache' = cache
       /\ (/\ IsRender(last') /\ last'.prior # None
           /\ last'.prior[1].threw
           /\ TemplateThrows(last'.slug))
            => /\ ~last'.result.cached
               /\ Len(last'.result.errors) >= 1]_vars

\* A cached render whose template threw, right after a render of the same
\* request whose template threw.
C5_Witness ==
    /\ IsRender(last) /\ last.threw
    /\ ~last.skipCache /\ last.getOk
    /\ last.prior # None /\ last.prior[1].threw
    /\ Len(last.result.errors) = 1

\* C6: two override maps with the same entries in different insertion orders
\* have the same fingerprint and the same cache key.
C6_KeyIgnoresInsertionOrder ==
    (last.op = "keys" /\ Entries(last.first) = Entries(last.second))
        => /\ last.firstHash = last.secondHash
           /\ last.firstKey = last.secondKey

\* C7: two override maps with the same keys that differ in a value have
\* different cache keys.
C7_KeyChangesWithValue ==
    (/\ last.op = "keys"
     /\ KeysOf(last.first) = KeysOf(last.second)
     /\ Entries(last.first) # Entries(last.second))
        => last.firstKey # last.secondKey

\* C8: when its DELETE runs, invalidateSectionCache(slug) removes every entry
\* written for that slug, leaves every other entry unchanged, and returns
\* the number removed.
C8_InvalidateSectionFrame ==
    [][(last'.op = "invalidateSectionCache" /\ last'.getOk)
         => /\ cache' = {r \in cache : /\ r.section_slug # last'.slug
                                      /\ WriterOf(r).slug # last'.slug}
            /\ \A r \in cache : r.section_slug = WriterOf(r).slug
            /\ last'.count = Cardinality(cache \ cache')]_vars

\* An invalidation that removed entries and left an entry of another slug
\* that was rendered with a preset.
C8_Witness ==
    /\ last.op = "invalidateSectionCache" /\ last.getOk
    /\ last.count >= 1
    /\ \E r \in cache : r.section_slug # last.slug /\ r.preset_slug # None

\* C9: when its DELETE runs, invalidatePresetCache(preset) removes exactly
\* the entries written by renders that used that preset, leaves the entries
\* written with another preset or none unchanged, and returns the number
\* removed.
C9_InvalidatePresetFrame ==
    [][(last'.op = "invalidatePresetCache" /\ last'.getOk)
         => /\ cache' = {r \in cache : WriterOf(r).preset # last'.preset}
            /\ last'.count = Cardinality(cache \ cache')]_vars

\* An invalidation that removed entries and left an entry written with no
\* preset.
C9_Witness ==
    /\ last.op = "invalidatePresetCache" /\ last.getOk
    /\ last.count >= 1
    /\ \E r \in cache : r.preset_slug = None

\* The row a caching render writes.
WrittenRow(o, t) ==
    [cache_key      |-> o.key,
     section_slug   |-> o.slug,
     preset_slug    |-> o.preset,
     html           |-> o.result.html,
     css            |-> o.result.css,
     render_time_ms |-> o.result.renderTimeMs,
     created_at     |-> toISOString(t),
     expires_at     |-> toISOString(t + TtlMinutes)]

\* C10: the cache holds at most one entry per key, and a put under an
\* existing key replaces that entry's html, css, renderTimeMs, component
\* slug, preset slug, createdAt and expiresAt, leaving the other entries.
C10_PutIsUpsert ==
    [][/\ \A r1, r2 \in cache' : r1.cache_key = r2.cache_key => r1 = r2
       /\ (IsRender(last') /\ last'.wrote)
            => /\ WrittenRow(last', clock') \in cache'
               /\ cache' \ {WrittenRow(last', clock')}
                    = {r \in cache : r.cache_key # last'.key}]_vars

\* A put, by the request with overrides, that replaced the entry under its key.
C10_Witness ==
    /\ IsRender(last) /\ last.wrote /\ last.replaced
    /\ last.preset = None /\ last.settings # None
    /\ Cardinality(cache) >= 2

\* What a render that is not served from the cache returns as html.
FreshHtml(o) ==
    IF ~SchemaExists(o.slug) THEN NotFoundHtml(o.slug)
    ELSE IF TemplateThrows(o.slug) THEN RenderErrorHtml(o.slug)
    ELSE RenderedHtml(o.slug, o.preset, o.settings)

DeletionOps ==
    {"invalidateSectionCache", "invalidatePresetCache", "cleanupExpiredCache"}

\* C11: a backend failure is never load-bearing: a render whose lookup fails
\* returns the freshly rendered result with cached=false; a render whose
\* write fails returns the rendered html, its css and no errors and leaves
\* the cache alone; an invalidation or sweep whose statement fails returns 0
\* and removes nothing.
C11_BackendFailuresSwallowed ==
    [][/\ (IsRender(last') /\ ~last'.skipCache /\ ~last'.getOk)
            => /\ ~last'.result.cached
               /\ last'.result.html = FreshHtml(last')
       /\ (IsRender(last') /\ ~last'.setOk)
            => /\ last'.result.html
                    = RenderedHtml(last'.slug, last'.preset, last'.settings)
               /\ last'.result.css = PreviewCss(last'.slug)
               /\ last'.result.errors = <<>>
               /\ ~last'.result.cached
               /\ cache' = cache
       /\ (last'.op \in DeletionOps /\ ~last'.getOk)
            => /\ last'.count = 0
               /\ cache' = cache]_vars

\* A render whose lookup and whose write both failed while a live entry sat
\* under its key.
C11_Witness ==
    /\ IsRender(last) /\ ~last.skipCache
    /\ ~last.getOk /\ ~last.setOk
    /\ getCachedPreview(cache, clock, last.key, TRUE) # None

IsBatch(o) == o.op = "renderSectionsBatch"

SlugsOf(slugs) == {slugs[i] : i \in 1 .. Len(slugs)}

\* What renderSection alone returns for an item of the batch, from the rows
\* the batch started with.
Standalone(o, slug) ==
    renderSection(o.before, clock, Request(slug, o.preset, None),
                  FALSE, TRUE, TRUE, BatchElapsed)

C13_NothingThrowsPastRender ==
    last.op \in {"renderSection", "renderSectionsBatch"} => ~last.raised

\* C14: a batch request that lists more than 20 slugs is answered with a
\* 400 error before any rendering: renderSectionsBatch is not invoked, no
\* render runs, and the cache is as it was.
C14_OversizedBatchRejected ==
    (last.op = "POST" /\ Len(last.sections) > maxBatchSize)
        => /\ last.status = 400
           /\ last.error = "Batch size exceeds maximum"
           /\ ~last.invoked
           /\ last.renders = 0
           /\ last.results = {}
           /\ cache = last.before

\* A request of 21 slugs, the first of which has a section that is not in
\* the cache, made while the cache holds other entries.
C14_Witness ==
    /\ last.op = "POST" /\ Len(last.sections) = maxBatchSize + 1
    /\ last.sections[1] = Hero
    /\ cache # {}
    /\ \A r \in cache : r.cache_key # KeyOf(Request(Hero, last.preset, None))

\* C15: with skipCache set, renderSection neither reads nor writes the
\* cache: it returns the fresh render with cached=false even when a live
\* entry sits under its key, and the rows are the same before and after.
C15_SkipCacheLeavesCacheAlone ==
    [][(IsRender(last') /\ last'.skipCache)
         => /\ ~last'.result.cached
            /\ last'.result.html = FreshHtml(last')
            /\ ~last'.wrote
            /\ cache' = cache]_vars

\* A render with skipCache of a request whose live entry, written with
\* another render time, is still in the cache.
C15_Witness ==
    /\ IsRender(last) /\ last.skipCache
    /\ getCachedPreview(cache, clock, last.key, TRUE) # None
    /\ \E r \in cache : /\ r.cache_key = last.key
                        /\ r.render_time_ms # last.result.renderTimeMs
                        /\ r.html = last.result.html

\* C16: any two calls of the generator with the same schema object and the
\* same preset, whatever was called on the schema in between, return equal
\* contexts (or both throw).
C16_GeneratorDeterministic ==
    \A i, j \in 1 .. Len(last.history) :
        last.history[i].preset = last.history[j].preset
            => /\ last.history[i].raised = last.history[j].raised
               /\ last.history[i].context = last.history[j].context

\* Two calls with the same preset around a call with another one, on a
\* schema whose first preset lists a block with settings of its own, into
\* which the first call merged the defaults.
C16_Witness ==
    /\ Len(last.history) = 3
    /\ last.history[1].preset = last.history[3].preset
    /\ last.history[1].preset # last.history[2].preset
    /\ ~last.history[3].raised
    /\ \E i \in 1 .. Len(last.history[3].context.section.blocks) :
          Len(last.history[3].context.section.blocks[i].settings) >= 2
    /\ last.schema # last.original

\* C17: the generator leaves the schema as it was loaded - its settings,
\* its block types and its presets, with the settings of every block of the
\* first preset - and so does a later merge into the returned context.
C17_GeneratorLeavesSchemaAlone ==
    last.schema = last.original

\* An open block tag with no end tag after it.
Unterminated(template) ==
    \E i \in 1..Len(template) :
        /\ template[i].name \in BlockTags
        /\ \A j \in (i + 1)..Len(template) :
               template[j].name # EndOf[template[i].name]

\* C18: a template in which a schema, style, javascript, form or paginate
\* tag has no matching end tag renders to a non-empty errors list and the
\* error markup, and the render does not throw.
C18_UnterminatedTagIsRenderError ==
    (last.op = "renderSection" /\ Unterminated(last.template)) =>
        /\ ~last.raised
        /\ last.errors # <<>>
        /\ last.html = RenderError(last.errors[1])

\* "$" q "." r, with q = cents div 100 and r = cents mod 100 in two digits.
TwoDecimals(cents) ==
    <<Dollar>> \o DigitsText(DivSmall(cents, 100).q) \o <<Dot>>
        \o TwoDigits(DivSmall(cents, 100).r)

\* What the claim gives for each filter.
Expected(name, cents) ==
    CASE name = "money_with_currency" -> TwoDecimals(cents) \o USD
      [] name = "money_without_trailing_zeros" ->
           IF DivSmall(cents, 100).r = 0
           THEN <<Dollar>> \o DigitsText(DivSmall(cents, 100).q)
           ELSE TwoDecimals(cents)
      [] OTHER -> TwoDecimals(cents)

\* 100 * 2^46
Exact == <<7, 0, 3, 6, 8, 7, 4, 4, 1, 7, 7, 6, 6, 4, 0, 0>>

\* C19 as stated: for every non-negative integer cents, each money filter
\* gives "$" q "." r (r in two digits), with " USD" appended by
\* money_with_currency and "$" q alone from money_without_trailing_zeros
\* when r = 0.
C19_MoneyExactForEveryAmount ==
    last.op # "load" => last.text = Expected(last.op, last.cents)

\* C19, amended: the same for every cents below 100 * 2^46.
C19_MoneyExactBelowBound ==
    (last.op # "load" /\ Less(last.cents, Exact)) =>
        last.text = Expected(last.op, last.cents)

\* money_without_trailing_zeros(7036874417766300) is "$70368744177663".
C19_Witness ==
    /\ last.op = "money_without_trailing_zeros"
    /\ last.cents = NearStart
    /\ last.text = <<Dollar>> \o DigitsText(SubSeq(NearStart, 1, 14))

\* Where a text first occurs in another.
IndexOf(text, part) ==
    LET At(i) == i + Len(part) - 1 <= Len(text)
                 /\ SubSeq(text, i, i + Len(part) - 1) = part
    IN  CHOOSE i \in 1..Len(text) : At(i) /\ \A j \in 1..(i - 1) : ~At(j)

\* The markup from the opening quote of an attribute on, the value of the
\* attribute as a reader of the markup takes it (up to the next double
\* quote), and the markup after that quote.
AttributeOpen(name) == <<Space>> \o name \o <<61, Quote>>

FromAttribute(output, name) ==
    SubSeq(output,
           IndexOf(output, AttributeOpen(name)) + Len(AttributeOpen(name)),
           Len(output))

AttributeValue(output, name) ==
    SubSeq(FromAttribute(output, name), 1,
           IndexOf(FromAttribute(output, name), <<Quote>>) - 1)

AfterAttribute(output, name) ==
    SubSeq(FromAttribute(output, name),
           IndexOf(FromAttribute(output, name), <<Quote>>) + 1,
           Len(FromAttribute(output, name)))

AltName == <<97, 108, 116>>

HrefName == <<104, 114, 101, 102>>

SrcName == <<115, 114, 99>>

TitleName == <<116, 105, 116, 108, 101>>

\* The value holds no < or >, and every & in it begins a character
\* reference that escaping writes.
Inert(value) ==
    \A i \in 1..Len(value) :
        /\ value[i] \notin {LessThan, GreaterThan}
        /\ value[i] = Ampersand =>
              \E ref \in {Amp, Lt, Gt, Quot, Apos} :
                  /\ i + Len(ref) - 1 <= Len(value)
                  /\ SubSeq(value, i, i + Len(ref) - 1) = ref

\* The markup the filter writes after the attribute that holds the
\* caller's text.
AfterText(o) ==
    CASE o.op = "image_tag" -> Tail(LazyClose)
      [] o.op = "stylesheet_tag" -> Tail(SlashClose)
      [] o.op = "script_tag" -> Tail(ScriptClose)
      [] o.op = "media_tag" -> Tail(SlashClose)
      [] o.op = "link_to" /\ o.title # <<>> ->
           TitleAttr \o AttributeValue(o.output, TitleName)
               \o <<Quote, GreaterThan>> \o LabelText \o AnchorClose
      [] o.op \in {"link_to_vendor", "link_to_type"} ->
           <<GreaterThan>> \o o.text \o AnchorClose
      [] OTHER -> <<GreaterThan>> \o LabelText \o AnchorClose

TextAttribute(o) ==
    CASE o.op \in {"image_tag", "media_tag"} -> AltName
      [] o.op = "script_tag" -> SrcName
      [] OTHER -> HrefName

\* C20: whatever text the caller gives, the attribute a filter puts it in
\* (alt, title, href; src for script_tag) ends at the quote the filter
\* writes, the markup after it is the filter's own, and the value holds
\* no <, > or bare &: for image_tag, link_to, link_to_tag, link_to_vendor,
\* link_to_type, stylesheet_tag, script_tag and media_tag.
C20_AttributeTextCannotEscape ==
    last.op # "load" =>
        /\ Inert(AttributeValue(last.output, TextAttribute(last)))
        /\ AfterAttribute(last.output, TextAttribute(last)) = AfterText(last)
        /\ (last.op = "link_to" /\ last.title # <<>>) =>
              /\ Inert(AttributeValue(last.output, TitleName))
              /\ AfterAttribute(last.output, TitleName)
                    = <<GreaterThan>> \o LabelText \o AnchorClose

\* What a key is meant to stand for: the slug, the preset or its absence,
\* and the fingerprint of the overrides or its absence.
Triple(o) == <<o.slug, o.preset, SettingsHash(o.settings)>>

\* C22: requests whose (slug, preset, fingerprint) triples differ never
\* share a cache entry: a render served from the cache is served an entry
\* that a render with the same triple wrote.
C22_DistinctRequestsDistinctEntries ==
    (IsRender(last) /\ last.result.cached) =>
        \A w \in writer :
            w.cache_key = last.key => Triple(w) = Triple(last)

\* The entries whose expiresAt instant has passed at instant t: both texts
\* are toISOString() texts, which order as their instants do.
Passed(rows, t) == {r \in rows : TextLess(r.expires_at, toISOString(t))}

\* C27: a cleanupExpiredCache call that reaches the backend removes exactly
\* the entries whose expiresAt has passed and returns their count; no
\* entry a lookup would still return at that instant is removed.
C27_SweepRemovesExactlyThePassed ==
    [][(last'.op = "cleanupExpiredCache" /\ last'.getOk) =>
          /\ cache' = cache \ Passed(cache, clock)
          /\ last'.count = Cardinality(Passed(cache, clock))
          /\ \A r \in cache \ cache' :
                getCachedPreview(cache, clock, r.cache_key, TRUE) = None]_vars

\* The slugs of a batch within the limit, and those only beyond it.
WithinLimit(slugs) ==
    {slugs[i] : i \in 1 .. (IF Len(slugs) < BatchLimit THEN Len(slugs)
                            ELSE BatchLimit)}

BeyondLimit(slugs) ==
    {slugs[i] : i \in (BatchLimit + 1) .. Len(slugs)} \ WithinLimit(slugs)

\* C30: renderSectionsBatch called with more than 20 slugs renders the
\* first 20 and ignores the rest: the map holds the first 20 slugs and no
\* other, 20 renders are started, no row is written for a later slug, and
\* the call does not raise.
C30_DirectBatchTruncates ==
    (last.op = "renderSectionsBatch" /\ Len(last.sections) > BatchLimit) =>
        /\ ~last.raised
        /\ {e.slug : e \in last.results} = WithinLimit(last.sections)
        /\ last.renders = BatchLimit
        /\ \A r \in cache \ last.before :
              r.section_slug \notin BeyondLimit(last.sections)

\* C21: once an invalidation of the section has completed, every entry of
\* the section in the cache was written by a call of renderSection that
\* started after that invalidation completed.
C21_NoEntryFromBeforeInvalidation ==
    last.invalidations > 0 =>
        \A r \in SectionRows(cache, RaceRequest.slug) :
            \A w \in writer :
                w.cache_key = r.cache_key => ~last.overtaken[w.call]

\* The value a theme field has when the preset's group gives `given` for
\* it: what is given, and the default when the group or the field is absent.
Overlaid(group, given, default) ==
    IF group # None /\ given # None THEN given ELSE default

\* C24: the theme settings of a generated context are the defaults overlaid
\* only by the fields the preset provides: a color or font the preset omits
\* keeps its default, and button, layout and social fields are the defaults.
C24_PresetOverlaysOnlyProvidedFields ==
    (last.op = "generate" /\ ~last.raised) =>
        LET theme == last.context.settings
            colors == IF last.preset = None THEN None
                      ELSE last.preset[1].colors
            typography == IF last.preset = None THEN None
                          ELSE last.preset[1].typography
        IN  /\ theme.button_border_radius = ThemeDefaults.button_border_radius
            /\ theme.page_width = ThemeDefaults.page_width
            /\ theme.social_twitter_link = ThemeDefaults.social_twitter_link
            /\ colors = None =>
                  /\ theme.color_primary = ThemeDefaults.color_primary
                  /\ theme.color_accent = ThemeDefaults.color_accent
                  /\ theme.color_text = ThemeDefaults.color_text
            /\ colors # None =>
                  /\ theme.color_primary =
                        Overlaid(colors, colors[1].primary,
                                 ThemeDefaults.color_primary)
                  /\ theme.color_accent =
                        Overlaid(colors, colors[1].accent,
                                 ThemeDefaults.color_accent)
                  /\ theme.color_text =
                        Overlaid(colors, colors[1].text,
                                 ThemeDefaults.color_text)
            /\ typography = None =>
                  /\ theme.typography_heading_font =
                        ThemeDefaults.typography_heading_font
                  /\ theme.typography_body_font =
                        ThemeDefaults.typography_body_font
            /\ typography # None =>
                  /\ theme.typography_heading_font =
                        Overlaid(typography, typography[1].heading_font,
                                 ThemeDefaults.typography_heading_font)
                  /\ theme.typography_body_font =
                        Overlaid(typography, typography[1].body_font,
                                 ThemeDefaults.typography_body_font)

\* The keys of an object.
Keys(object) == {object[i][1] : i \in 1 .. Len(object)}

\* The ids of the settings of a list that carry a value, and of those that
\* are structure of the editor only.
Structural(settings) ==
    {settings[i].id : i \in {j \in 1 .. Len(settings) :
                               settings[j].type \in {"header", "paragraph"}}}

ValueIds(settings) ==
    {settings[i].id : i \in 1 .. Len(settings)} \ Structural(settings)

\* C25: in a generated context the settings of the section hold every id of
\* a setting that carries a value and no id of a header or paragraph, and
\* so do the settings of every block for the settings of its block type.
C25_NoStructuralIdInSettings ==
    (last.op = "generate" /\ ~last.raised) =>
        /\ Keys(last.context.section.settings) \cap
              Structural(last.schema.settings[1]) = {}
        /\ ValueIds(last.schema.settings[1]) \subseteq
              Keys(last.context.section.settings)
        /\ \A i \in 1 .. Len(last.context.section.blocks) :
              LET block == last.context.section.blocks[i]
                  blockType == FindBlockType(last.schema.blocks[1], block.type)
              IN  (blockType # None /\ blockType[1].settings # None) =>
                     /\ Keys(block.settings) \cap
                           Structural(blockType[1].settings[1]) = {}
                     /\ ValueIds(blockType[1].settings[1]) \subseteq
                           Keys(block.settings)

\* The block list of the first preset of a schema, if it defines one.
FirstPresetBlocks(schema) ==
    IF /\ schema.presets # None
       /\ Len(schema.presets[1]) > 0
       /\ schema.presets[1][1] # None
    THEN schema.presets[1][1][1].blocks
    ELSE None

\* The settings a block type declares for a type, none when the schema has
\* no such type or the type has no settings.
DeclaredSettings(schema, type) ==
    LET blockType == FindBlockType(schema.blocks[1], type)
    IN  IF blockType # None /\ blockType[1].settings # None
        THEN blockType[1].settings[1]
        ELSE <<>>

\* The settings hold the values of `own` and, for every declared setting
\* whose id `own` lacks, its default; and nothing else.
OwnThenDefaults(settings, own, declared) ==
    /\ Keys(settings) = Keys(own) \cup {declared[j].id : j \in 1 .. Len(declared)}
    /\ \A key \in Keys(own) : Get(settings, key) = Get(own, key)
    /\ \A j \in 1 .. Len(declared) :
          declared[j].id \notin Keys(own) =>
              Get(settings, declared[j].id) = getDefaultValue(declared[j])

\* C26: when the first preset of the schema as loaded defines a block list,
\* the blocks of the context are that list in order, with ids block-0 ..
\* block-(n-1), each with its preset values and the block type's defaults
\* for the ids it lacks; otherwise they are the first min(3, number of
\* block types) block types in declared order, populated from defaults.
C26_BlocksMaterialized ==
    (last.op = "generate" /\ ~last.raised) =>
        LET given == FirstPresetBlocks(last.original)
            blocks == last.context.section.blocks
        IN  IF given # None
            THEN /\ Len(blocks) = Len(given[1])
                 /\ \A i \in 1 .. Len(blocks) :
                       /\ blocks[i].type = given[1][i].type
                       /\ blocks[i].id = BlockPrefix \o Decimal(i - 1, 1)
                       /\ OwnThenDefaults(
                              blocks[i].settings,
                              IF given[1][i].settings # None
                              THEN given[1][i].settings[1] ELSE <<>>,
                              DeclaredSettings(last.original, given[1][i].type))
            ELSE LET types == last.original.blocks[1]
                 IN  /\ Len(blocks) = IF Len(types) < 3 THEN Len(types) ELSE 3
                     /\ \A i \in 1 .. Len(blocks) :
                           /\ blocks[i].type = types[i].type
                           /\ blocks[i].id = BlockPrefix \o Decimal(i - 1, 1)
                           /\ OwnThenDefaults(
                                  blocks[i].settings, <<>>,
                                  IF types[i].settings # None
                                  THEN types[i].settings[1] ELSE <<>>)

\* A second call on a schema whose first preset lists a slide with a text
\* of its own: the block keeps the text and has the image default.
C26_Witness ==
    /\ last.op = "generate" /\ ~last.raised
    /\ Len(last.history) = 2
    /\ FirstPresetBlocks(last.original) =
          Some(<<PresetBlock("slide", Some(<< <<KeyT, ValueBB>> >>))>>)
    /\ Len(last.original.blocks[1]) = 2
    /\ Len(last.context.section.blocks) = 1
    /\ Get(last.context.section.blocks[1].settings, KeyT) = ValueBB
    /\ Get(last.context.section.blocks[1].settings, KeyA) = Null

\* C28: the entities of a generated context follow the schema's category:
\* a product only for product and main-product; a collection only for
\* collection and main-collection; a list of collections whose first
\* element is also the collection for featured-collection and
\* collection-list; none for hero, slideshow and image-banner; a product
\* and a collection for every other category.
C28_EntitiesFollowCategory ==
    (last.op = "generate" /\ ~last.raised) =>
        LET entities == last.context.entities
            category == last.schema.category
        IN  IF category \in {"product", "main-product"}
            THEN /\ entities.product # None
                 /\ entities.collection = None /\ entities.collections = None
            ELSE IF category \in {"collection", "main-collection"}
            THEN /\ entities.collection # None
                 /\ entities.product = None /\ entities.collections = None
            ELSE IF category \in {"featured-collection", "collection-list"}
            THEN /\ entities.collections # None
                 /\ Len(entities.collections[1]) > 0
                 /\ entities.collection = Some(entities.collections[1][1])
                 /\ entities.product = None
            ELSE IF category \in {"hero", "slideshow", "image-banner"}
            THEN entities = NoEntities
            ELSE /\ entities.product # None /\ entities.collection # None
                 /\ entities.collections = None

\* A context generated for a collection-list section: four collections,
\* the first of them, and no other, being the collection.
C28_Witness ==
    /\ last.op = "generate" /\ ~last.raised
    /\ last.schema.category = "collection-list"
    /\ Len(last.context.entities.collections[1]) = 4
    /\ last.context.entities.collection[1].id = 5000
    /\ \A i \in 2 .. 4 :
          last.context.entities.collections[1][i] #
              last.context.entities.collection[1]

\* C29: the overrides are merged key by key into the settings of the
\* section: a key of the overrides has the override's value, every other
\* key keeps the value it had, and nothing else of the context, of the
\* schema or of the cache changes.
C29_OverridesMergedShallowly ==
    [][last'.op = "merge" =>
         LET before == last.context.section.settings
             after == last'.context.section.settings
             custom == last'.customSettings
         IN  /\ Keys(after) = Keys(before) \cup Keys(custom)
             /\ \A key \in Keys(custom) : Get(after, key) = Get(custom, key)
             /\ \A key \in Keys(before) \ Keys(custom) :
                   Get(after, key) = Get(before, key)
             /\ last'.context =
                   [last.context EXCEPT !.section.settings = after]
             /\ last'.schema = last.schema
             /\ cache' = cache]_vars

\* Overrides { a: "BB", h: "Aa" } merged into the defaults
\* { t: "Sample text", a: "#000000" }: a is overridden, t is kept, h is new.
C29_Witness ==
    /\ last.op = "merge"
    /\ last.history[Len(last.history)].context.section.settings =
          << <<KeyT, SampleText>>, <<KeyA, Black>> >>
    /\ last.context.section.settings =
          << <<KeyT, SampleText>>, <<KeyA, ValueBB>>, <<KeyH, ValueAa>> >>

\* C23: the template generated for a section without a stored template,
\* rendered against the section's mock context, leaves errors empty.
C23_GeneratedTemplateRendersClean ==
    last.op = "parseAndRender" => last.errors = 0

====
